---- MODULE Spec2Model ----
(***************************************************************************)
(* A model of ToneMatrix Redux's canvas renderer (GridCanvasRenderer), its *)
(* coordinate mapping (Util), its input tracking and its particle pool.    *)
(*                                                                         *)
(* JavaScript numbers that may be NaN are modelled as records              *)
(* [nan |-> BOOLEAN, v |-> Int]; every comparison with NaN is false, as in *)
(* IEEE 754.  All other numbers of the model are integers: the canvas      *)
(* sizes and grid shapes are chosen so that every quotient the code forms  *)
(* (cell sizes, tile midpoints) is exact.                                  *)
(***************************************************************************)
EXTENDS Integers, Sequences, FiniteSets, Bags

VARIABLES
    canvas,         \* this.canvas: [width, height], the backing-store size
    grid,           \* the Grid handed to update(): its shape, tiles and instruments
    particles,      \* this.particleSystem.particles: the pool's slots
    spriteSheet,    \* this.spriteSheet: null or the SpriteSheet built last
    lastView,       \* this.lastView: null or the snapshot of the last build
    lastPlayheadX,  \* this.lastPlayheadX
    mouseX,         \* this.mouseX (NaN when absent)
    mouseY,         \* this.mouseY (NaN when absent)
    dragging,       \* this.dragging
    pressed,        \* the tile of the tiledown signal no tileup has followed yet
    op,             \* the handler or method that ran last
    emitted,        \* the signals it emitted, in order
    frame,          \* what update() computed and requested, when it ran last
    probe,          \* the last call of a pure function: its inputs and result
    ctx,            \* this.ctx: "none" until the constructor has acquired it
    error,          \* the message of the Error thrown last, "" when none was
    internalListeners,  \* this.internalListeners: <<target, event>> pairs
    domListeners,   \* the listeners the DOM holds on canvas, document and wrapper
    subscribers,    \* the tile events that have a subscriber (EventEmitter)
    disposals,      \* the number of dispose() calls made so far
    destroyed,      \* ToneMatrix: this.destroyed
    arming,         \* ToneMatrix: the constructor's arming, null or a boolean
    listeners,      \* ToneMatrix: this.listeners, <<target, event>> pairs
    looping         \* ToneMatrix: a call of updateContinuous is requested

vars == << canvas, grid, particles, spriteSheet, lastView, lastPlayheadX,
           mouseX, mouseY, dragging, pressed, op, emitted, frame, probe,
           ctx, error, internalListeners, domListeners, subscribers, disposals,
           destroyed, arming, listeners, looping >>

rendererVars == << spriteSheet, lastView, lastPlayheadX >>
pointerVars == << mouseX, mouseY, dragging, pressed >>
lifeVars == << ctx, error, internalListeners, domListeners, subscribers, disposals >>
wiringVars == << ctx, internalListeners, domListeners, subscribers, disposals >>
appVars == << destroyed, arming, listeners, looping >>

(***************************************************************************)
(* Bounds of the model.                                                    *)
(***************************************************************************)
MaxGridSide == 3        \* probed grids have 1..MaxGridSide columns and rows
MaxPool == 2            \* the particle pool has 1..MaxPool slots
MaxLit == 2             \* at most MaxLit tiles are lit at a time
MaxTouches == 2         \* a touch event carries 0..MaxTouches touch points
MaxBurstCount == 3      \* createParticleBurst is probed with 0..MaxBurstCount
PixelMargin == 2        \* probed pixels reach this far outside the canvas
MaxDisposals == 2       \* dispose() is called at most MaxDisposals times

\* Canvas backing-store sizes, square and not: the sides are multiples of
\* 12, so that the cells and the tile midpoints of 2- and 3-column grids
\* are whole pixels.
Canvases == {[width |-> 12, height |-> 12], [width |-> 12, height |-> 24]}

\* Grid shapes <<width, height>> handed to the renderer: square, wide, tall.
GridShapes == {<<2, 2>>, <<3, 2>>, <<2, 3>>}

(***************************************************************************)
(* JavaScript numbers with NaN.                                            *)
(***************************************************************************)
NaN == [nan |-> TRUE, v |-> 0]
Num(n) == [nan |-> FALSE, v |-> n]
IsNaN(f) == f.nan

\* a >= b and a < b on numbers: false as soon as one side is NaN
Ge(a, b) == ~a.nan /\ ~b.nan /\ a.v >= b.v
Lt(a, b) == ~a.nan /\ ~b.nan /\ a.v < b.v

\* a === b on numbers: NaN equals nothing, itself included
StrictEq(a, b) == ~a.nan /\ ~b.nan /\ a.v = b.v

\* Math.floor(x / (size / cells)) for a positive size and cell count:
\* floor(x * cells / size), NaN for NaN.
FloorDiv(x, size, cells) ==
    IF x.nan THEN NaN ELSE Num((x.v * cells) \div size)

(***************************************************************************)
(* Util.                                                                   *)
(***************************************************************************)
coordToIndex(x, y, gridHeight) == x * gridHeight + y

indexToCoordByWidth(index, gridHeight) ==
    [x |-> index % gridHeight, y |-> index \div gridHeight]

indexToCoord(index, gridHeight) ==
    [x |-> index \div gridHeight, y |-> index % gridHeight]

getDevicePixelRatio == 2

(***************************************************************************)
(* GridCanvasRenderer.pixelCoordsToTileCoords.  The result is the tile, or *)
(* NoTile for JavaScript's false.                                          *)
(***************************************************************************)
NoTile == [tile |-> FALSE, x |-> NaN, y |-> NaN]
Tile(x, y) == [tile |-> TRUE, x |-> x, y |-> y]

pixelCoordsToTileCoords(x, y, gridWidth, gridHeight) ==
    LET canvasWidth == canvas.width
        canvasHeight == canvas.height
        xCoord == FloorDiv(x, canvasWidth, gridWidth)
        yCoord == FloorDiv(y, canvasHeight, gridHeight)
    IN  IF \/ Ge(xCoord, Num(gridWidth))
           \/ Ge(yCoord, Num(gridWidth))
           \/ Lt(xCoord, Num(0))
           \/ Lt(yCoord, Num(0))
        THEN NoTile
        ELSE Tile(xCoord, yCoord)

(***************************************************************************)
(* ParticleSystem: a pool of a fixed number of slots.  A slot is dead when *)
(* its life is <= 0.                                                       *)
(***************************************************************************)
PARTICLE_LIFETIME == 2
LIFE_DECAY == 1

DeadParticle == [x |-> 0, y |-> 0, vx |-> 0, vy |-> 0, life |-> 0]

\* new ParticleSystem(width, height): n dead slots
NewParticleSystem(n) == [i \in 1..n |-> DeadParticle]

IsDead(p) == p.life <= 0

\* the fixed deceleration factor, one half, applied to a velocity component
Decelerate(v) == IF v >= 0 THEN v \div 2 ELSE -((-v) \div 2)

\* ParticleSystem.update(): advance every live particle by one frame
ParticleUpdate(ps) ==
    [i \in DOMAIN ps |->
        IF ps[i].life > 0
        THEN [x |-> ps[i].x + ps[i].vx, y |-> ps[i].y + ps[i].vy,
              vx |-> Decelerate(ps[i].vx), vy |-> Decelerate(ps[i].vy),
              life |-> ps[i].life - LIFE_DECAY]
        ELSE ps[i]]

\* the velocities a burst may draw for one particle: random within
\* +-velocity on both axes, sampled at rest and at full speed right-down
VelocitySamples(velocity) == {<<0, 0>>, <<velocity, velocity>>}

\* the number of dead slots of ps before slot i, in scan order
DeadBefore(ps, i) == Cardinality({j \in 1..(i - 1) : IsDead(ps[j])})

Spawned(x, y, vel) ==
    [x |-> x, y |-> y, vx |-> vel[1], vy |-> vel[2], life |-> PARTICLE_LIFETIME]

createParticleBurstGrowing(ps, x, y, amount, rnd) ==
    LET dead == Cardinality({j \in DOMAIN ps : IsDead(ps[j])})
        reused == [i \in DOMAIN ps |->
                      IF IsDead(ps[i]) /\ DeadBefore(ps, i) < amount
                      THEN Spawned(x, y, rnd[i]) ELSE ps[i]]
    IN  IF amount > dead THEN Append(reused, Spawned(x, y, <<0, 0>>)) ELSE reused

createParticleBurstOverwriting(ps, x, y, amount, rnd) ==
    [i \in DOMAIN ps |-> IF i <= amount THEN Spawned(x, y, rnd[i]) ELSE ps[i]]

\* ParticleSystem.createParticleBurst(x, y, velocity, amount): the first
\* `amount` dead slots, found by a linear scan, are respawned at (x, y);
\* rnd[i] is the random velocity slot i draws if it is respawned.
createParticleBurst(ps, x, y, amount, rnd) ==
    [i \in DOMAIN ps |->
        IF IsDead(ps[i]) /\ DeadBefore(ps, i) < amount
        THEN Spawned(x, y, rnd[i])
        ELSE ps[i]]

\* the bursts of one frame, applied in the order they were requested
RECURSIVE ApplyBursts(_, _, _)
ApplyBursts(ps, bursts, rnd) ==
    IF bursts = <<>> THEN ps
    ELSE ApplyBursts(
            createParticleBurst(ps, Head(bursts).x, Head(bursts).y,
                                Head(bursts).amount, rnd),
            Tail(bursts), rnd)

(***************************************************************************)
(* Grid: its shape, its tiles and its instruments.                         *)
(*   length             data.length                                        *)
(*   notes[c][i]        the note handle tile i holds for instrument c, or  *)
(*                      NoNote; a handle is the <<x, y>> it was scheduled  *)
(*                      with                                               *)
(*   scheduled[c]       the bag of the handles instrument c has scheduled  *)
(*                      and not unscheduled                                *)
(*   lit                the indices of the tiles that are not empty        *)
(*   playheadX          the column the current instrument reports          *)
(***************************************************************************)
\* the constructor pushes two instruments
InstrumentCount == 2

NoNote == <<>>

NewGrid(shape) ==
    [width |-> shape[1], height |-> shape[2], lit |-> {}, playheadX |-> 0,
     length |-> shape[1] * shape[2],
     currentInstrument |-> 0,
     instruments |-> InstrumentCount,
     notes |-> [c \in 0..(InstrumentCount - 1) |->
                   [i \in 0..(shape[1] * shape[2] - 1) |-> NoNote]],
     scheduled |-> [c \in 0..(InstrumentCount - 1) |-> EmptyBag]]

DataLength(g) == g.length

\* Tile.hasNote(c) of tile i: it holds a handle for instrument c
HasNote(g, i, c) == c \in DOMAIN g.notes /\ g.notes[c][i] # NoNote

\* Tile.isEmpty() is false: tile i holds a handle for some instrument
NonEmpty(notes) ==
    {i \in UNION {DOMAIN notes[c] : c \in DOMAIN notes} :
        \E c \in DOMAIN notes : notes[c][i] # NoNote}

\* data[index] is undefined: reading a method of it throws a TypeError
NoSuchTile(g, x, y) == coordToIndex(x, y, g.height) \notin 0..(g.length - 1)

\* instruments[currentInstrument] is undefined: calling a method of it
\* throws a TypeError
NoSuchInstrument(g) == g.currentInstrument \notin 0..(g.instruments - 1)

\* getTileValue(x, y), for a tile that exists
getTileValue(g, x, y) ==
    HasNote(g, coordToIndex(x, y, g.height), g.currentInstrument)

\* setTileValue(x, y, bool) throws
setTileValueThrows(g, x, y, bool) ==
    \/ NoSuchTile(g, x, y)
    \/ bool /\ ~getTileValue(g, x, y) /\ NoSuchInstrument(g)

\* setTileValue(x, y, bool): the grid afterwards; a call that throws
\* leaves it as it was
setTileValue(g, x, y, bool) ==
    LET i == coordToIndex(x, y, g.height)
        c == g.currentInstrument
    IN  IF setTileValueThrows(g, x, y, bool) THEN g
        ELSE IF bool
        THEN IF getTileValue(g, x, y) THEN g
             ELSE LET notes == [g.notes EXCEPT ![c][i] = <<x, y>>]
                  IN  [g EXCEPT !.notes = notes,
                                !.scheduled[c] = @ (+) SetToBag({<<x, y>>}),
                                !.lit = NonEmpty(notes)]
        ELSE IF ~getTileValue(g, x, y) THEN g
             ELSE LET notes == [g.notes EXCEPT ![c][i] = NoNote]
                  IN  [g EXCEPT !.notes = notes,
                                !.scheduled[c] = @ (-) SetToBag({g.notes[c][i]}),
                                !.lit = NonEmpty(notes)]

\* toggleTileValue(x, y)
toggleTileValue(g, x, y) ==
    IF NoSuchTile(g, x, y) THEN g
    ELSE setTileValue(g, x, y, ~getTileValue(g, x, y))

\* clearAllTiles(): every tile drops its notes, every instrument its
\* scheduled notes
clearAllTiles(g) ==
    [g EXCEPT !.notes = [c \in DOMAIN @ |-> [i \in DOMAIN @[c] |-> NoNote]],
              !.scheduled = [c \in DOMAIN @ |-> EmptyBag],
              !.lit = {}]

\* setCurrentInstrument(instrumentId)
setCurrentInstrument(g, instrumentId) ==
    IF instrumentId >= g.instruments THEN g
    ELSE [g EXCEPT !.currentInstrument = instrumentId]

\* Grid.dispose(): data and instruments are emptied
disposeGrid(g) ==
    [g EXCEPT !.length = 0, !.instruments = 0, !.lit = {},
              !.notes = [c \in {} |-> <<>>],
              !.scheduled = [c \in {} |-> EmptyBag]]

(***************************************************************************)
(* GridCanvasRenderer: the frame.                                          *)
(***************************************************************************)
NullView == [isNull |-> TRUE, gridWidth |-> 0, gridHeight |-> 0,
             canvasWidth |-> 0, canvasHeight |-> 0]

View(gw, gh, cw, ch) ==
    [isNull |-> FALSE, gridWidth |-> gw, gridHeight |-> gh,
     canvasWidth |-> cw, canvasHeight |-> ch]

NoFrame == [rebuilt |-> FALSE, playheadX |-> -1, heatmap |-> <<>>,
            stray |-> {}, bursts |-> <<>>, mousedOverTile |-> NoTile,
            draws |-> <<>>, first |-> FALSE]

\* the tile index a live particle heats, -1 when it is over no tile
HeatIndex(p, g) ==
    LET tile == pixelCoordsToTileCoords(Num(p.x), Num(p.y), g.width, g.height)
    IN  IF p.life > 0 /\ tile.tile
        THEN coordToIndex(tile.x.v, tile.y.v, g.height)
        ELSE -1

RECURSIVE HeatAt(_, _, _, _)
HeatAt(ps, g, idx, k) ==
    IF k = 0 THEN 0
    ELSE HeatAt(ps, g, idx, k - 1)
         + (IF HeatIndex(ps[k], g) = idx THEN ps[k].life ELSE 0)

\* getParticleHeatMap: entry i + 1 is heatmap[i]
getParticleHeatMap(ps, g) ==
    [i \in 1..DataLength(g) |-> HeatAt(ps, g, i - 1, Len(ps))]

\* the indices outside 0..width*height-1 that getParticleHeatMap writes
\* (JavaScript stores NaN there: undefined + life)
HeatMapStray(ps, g) ==
    {HeatIndex(ps[k], g) : k \in 1..Len(ps)} \ (-1..(DataLength(g) - 1))

\* the condition of getSpriteSheet under which a new SpriteSheet is built
SpriteSheetIsStaleCanvasOnly(g) ==
    \/ spriteSheet.isNull
    \/ lastView.isNull
    \/ lastView.canvasHeight # canvas.width
    \/ lastView.canvasWidth # canvas.height

SpriteSheetIsStale(g) ==
    \/ spriteSheet.isNull
    \/ lastView.isNull
    \/ lastView.gridWidth # g.width
    \/ lastView.gridHeight # g.height
    \/ lastView.canvasHeight # canvas.width
    \/ lastView.canvasWidth # canvas.height

\* the midpoint dx * (gridx + 0.5) of cell gridx, for dx = size / cells
MidPoint(size, cells, gridx) == (size * (2 * gridx + 1)) \div (2 * cells)

BurstAt(g, i) ==
    [x |-> MidPoint(canvas.width, g.width, indexToCoord(i, g.height).x),
     y |-> MidPoint(canvas.height, g.height, indexToCoord(i, g.height).y),
     velocity |-> 8 * getDevicePixelRatio,
     amount |-> 20]

BurstWantedEveryFrame(g, i, playheadX) ==
    /\ i \in g.lit
    /\ indexToCoord(i, g.height).x = playheadX

\* draw's condition for a burst on tile i
BurstWanted(g, i, playheadX) ==
    /\ i \in g.lit
    /\ indexToCoord(i, g.height).x = playheadX
    /\ playheadX # lastPlayheadX

\* the bursts draw requests while it walks tiles 0..n-1, in that order
RECURSIVE BurstRequests(_, _, _)
BurstRequests(g, n, playheadX) ==
    IF n = 0 THEN <<>>
    ELSE BurstRequests(g, n - 1, playheadX)
         \o (IF BurstWanted(g, n - 1, playheadX)
             THEN <<BurstAt(g, n - 1)>> ELSE <<>>)

\* ctx.globalAlpha values, as whole numbers: the opacity num / den times
\* AlphaScale, a scale on which every opacity draw sets is whole
AlphaScale == 255 * 100 * PARTICLE_LIFETIME

Alpha(num, den) == (num * AlphaScale) \div den

\* (heatmap[i] * BRIGHTNESS * (204 / 255)) / PARTICLE_LIFETIME + 51 / 255
\* with BRIGHTNESS = 0.05
HeatAlpha(heat) ==
    (heat * 5 * 204 * AlphaScale) \div (100 * 255 * PARTICLE_LIFETIME)
    + Alpha(51, 255)

HoveredOnceViewed(mousedOverTile, gridx, gridy) ==
    /\ ~lastView.isNull
    /\ mousedOverTile.tile
    /\ StrictEq(Num(gridx), mousedOverTile.x)
    /\ StrictEq(Num(gridy), mousedOverTile.y)

HoveredLoose(mousedOverTile, gridx, gridy) ==
    /\ mousedOverTile.tile
    /\ gridx = mousedOverTile.x.v
    /\ gridy = mousedOverTile.y.v

\* mousedOverTile && gridx === mousedOverTile.x && gridy === mousedOverTile.y
Hovered(mousedOverTile, gridx, gridy) ==
    /\ mousedOverTile.tile
    /\ StrictEq(Num(gridx), mousedOverTile.x)
    /\ StrictEq(Num(gridy), mousedOverTile.y)

\* what the tile loop draws for tile i: the sprite, the opacity, and
\* whether the tile was taken as the one under the pointer
DrawTile(g, i, playheadX, heatmap, mousedOverTile) ==
    LET gridx == indexToCoord(i, g.height).x
        gridy == indexToCoord(i, g.height).y
        on == i \in g.lit
    IN  IF on
        THEN IF gridx = playheadX
             THEN [sprite |-> 2, alpha |-> Alpha(1, 1), hover |-> FALSE]
             ELSE [sprite |-> 1, alpha |-> Alpha(85, 100), hover |-> FALSE]
        ELSE IF Hovered(mousedOverTile, gridx, gridy)
             THEN [sprite |-> 0, alpha |-> Alpha(3, 10), hover |-> TRUE]
             ELSE [sprite |-> 0, alpha |-> HeatAlpha(heatmap[i + 1]),
                   hover |-> FALSE]

updateParticlesSkipped(ps) == ps

updateParticlesTwice(ps) == ParticleUpdate(ParticleUpdate(ps))

\* update's first statement: this.particleSystem.update()
updateParticles(ps) == ParticleUpdate(ps)

\* update(grid): advance the pool, then draw
\* the random velocities one frame may draw: one per slot that a burst of
\* this frame can respawn (a slot that stays as it is draws nothing)
RandomDraws(ps, bursts) ==
    {rnd \in [1..Len(ps) -> VelocitySamples(8 * getDevicePixelRatio)] :
        \A i \in 1..Len(ps) :
            (bursts = <<>> \/ ~IsDead(ps[i])) => rnd[i] = <<0, 0>>}

\* update(grid): the particles advance, then draw(grid) runs; getPlayheadX
\* throws on a grid without a current instrument, before anything is drawn
RendererUpdate ==
    \E rnd \in RandomDraws(updateParticles(particles),
                           BurstRequests(grid, DataLength(grid), grid.playheadX)) :
        LET advanced == updateParticles(particles)
            thrown == NoSuchInstrument(grid)
            playheadX == grid.playheadX
            stale == SpriteSheetIsStale(grid)
            view == View(grid.width, grid.height, canvas.width, canvas.height)
            bursts == BurstRequests(grid, DataLength(grid), playheadX)
            heatmap == getParticleHeatMap(advanced, grid)
            mousedOverTile == pixelCoordsToTileCoords(mouseX, mouseY,
                                                      grid.width, grid.height)
        IN  /\ ctx = "2d"
            /\ particles' = IF thrown THEN advanced
                            ELSE ApplyBursts(advanced, bursts, rnd)
            /\ spriteSheet' = IF stale /\ ~thrown THEN view ELSE spriteSheet
            /\ lastView' = IF stale /\ ~thrown THEN view ELSE lastView
            /\ lastPlayheadX' = IF thrown THEN lastPlayheadX ELSE playheadX
            /\ frame' = IF thrown THEN NoFrame
                        ELSE [rebuilt |-> stale,
                              playheadX |-> playheadX,
                              heatmap |-> heatmap,
                              stray |-> HeatMapStray(advanced, grid),
                              bursts |-> bursts,
                              mousedOverTile |-> mousedOverTile,
                              draws |->
                                  [i \in 1..DataLength(grid) |->
                                      DrawTile(grid, i - 1, playheadX,
                                               heatmap, mousedOverTile)],
                              first |-> lastView.isNull]
            /\ error' = IF thrown THEN "TypeError" ELSE error
            /\ op' = "update"
            /\ emitted' = <<>>
            /\ UNCHANGED << wiringVars, canvas, grid, pointerVars, probe >>

\* update(grid) called on the renderer
Update == RendererUpdate /\ UNCHANGED appVars

(***************************************************************************)
(* The renderer's surroundings: the host resizes the canvas, the transport *)
(* moves the playhead, the application toggles tiles or hands update()     *)
(* another grid.                                                           *)
(***************************************************************************)
Resize ==
    \E c \in Canvases :
        /\ c # canvas
        /\ canvas' = c
        /\ op' = "resize"
        /\ frame' = NoFrame
        /\ emitted' = <<>>
        /\ UNCHANGED << appVars, lifeVars, grid, particles, rendererVars, pointerVars, probe >>

MovePlayhead ==
    \E col \in 0..(grid.width - 1) :
        /\ col # grid.playheadX
        /\ grid' = [grid EXCEPT !.playheadX = col]
        /\ op' = "playhead"
        /\ frame' = NoFrame
        /\ emitted' = <<>>
        /\ UNCHANGED << appVars, lifeVars, canvas, particles, rendererVars, pointerVars, probe >>

ToggleTile ==
    \E i \in 0..(DataLength(grid) - 1) :
        /\ i \in grid.lit \/ Cardinality(grid.lit) < MaxLit
        /\ grid' = toggleTileValue(grid, indexToCoord(i, grid.height).x,
                                   indexToCoord(i, grid.height).y)
        /\ op' = "toggle"
        /\ frame' = NoFrame
        /\ emitted' = <<>>
        /\ UNCHANGED << appVars, lifeVars, canvas, particles, rendererVars, pointerVars, probe >>

\* update() is handed a new Grid.  The transport is shared by all grids and
\* a grid reads its playhead column off it as floor(progress * width): the
\* new grid's column is one that the transport can be over while it is over
\* column playheadX of the old grid
SetGrid ==
    \E shape \in GridShapes, col \in 0..(MaxGridSide - 1) :
        /\ <<grid.width, grid.height>> # shape
        /\ col < shape[1]
        /\ col * grid.width < (grid.playheadX + 1) * shape[1]
        /\ grid.playheadX * shape[1] < (col + 1) * grid.width
        /\ grid' = [NewGrid(shape) EXCEPT !.playheadX = col]
        /\ op' = "grid"
        /\ frame' = NoFrame
        /\ emitted' = <<>>
        /\ UNCHANGED << appVars, lifeVars, canvas, particles, rendererVars, pointerVars, probe >>

(***************************************************************************)
(* GridCanvasRenderer: the input listeners.                                *)
(***************************************************************************)
\* the listeners the constructor registers through listen(), in its order
ConstructorListeners ==
    << <<"canvas", "mousemove">>, <<"canvas", "mouseleave">>,
       <<"canvas", "mousedown">>, <<"document", "mouseup">>,
       <<"canvas", "touchstart">>, <<"canvas", "touchend">>,
       <<"canvas", "touchmove">> >>

\* the DOM dispatches an event to a listener only while it is registered
Listening(target, event) == <<target, event>> \in domListeners

\* canvas.getBoundingClientRect(): the element is shown at half its
\* backing-store size, one CSS pixel off the viewport's corner
ClientRect ==
    [left |-> 1, top |-> 1,
     width |-> canvas.width \div 2, height |-> canvas.height \div 2]

\* the client positions <<clientX, clientY>> of mouse events: over tile
\* (0, 0), over the column at pixel 8 (the last of three columns, the
\* second of two), left of the canvas, above it, right of it, and two
\* positions further down, the first below a canvas 12 high, both below
\* one 24 high
ClientPoints ==
    {<<2, 2>>, <<5, 2>>, <<0, 2>>, <<2, 0>>, <<13, 2>>, <<2, 7>>, <<2, 13>>}

\* the client positions of touch points
TouchPoints == {<<2, 2>>, <<2, 7>>}

RECURSIVE SeqsUpTo(_, _)
SeqsUpTo(S, n) ==
    IF n = 0 THEN {<<>>}
    ELSE LET shorter == SeqsUpTo(S, n - 1)
         IN  shorter \cup {Append(t, e) : t \in shorter, e \in S}

\* e.touches
TouchLists == SeqsUpTo(TouchPoints, MaxTouches)

\* updateCanvasMousePosition(e): the new <<mouseX, mouseY>>
updateCanvasMousePosition(e) ==
    LET currentRect == ClientRect
        scaleX == canvas.width \div currentRect.width
        scaleY == canvas.height \div currentRect.height
    IN  [x |-> Num((e[1] - currentRect.left) * scaleX),
         y |-> Num((e[2] - currentRect.top) * scaleY)]

Signal(event, payload) == [event |-> event, payload |-> payload]

emitTileEventWithClick(event, mx, my) ==
    IF lastView.isNull THEN <<>>
    ELSE LET tile == pixelCoordsToTileCoords(mx, my, lastView.gridWidth,
                                             lastView.gridHeight)
         IN  (IF tile.tile THEN <<Signal(event, tile)>> ELSE <<>>)
             \o (IF tile.tile /\ event = "tileup"
                 THEN <<Signal("tileclick", tile)>> ELSE <<>>)
             \o (IF ~tile.tile /\ event = "tileup"
                 THEN <<Signal("tileup", NoTile)>> ELSE <<>>)

emitTileEventUnviewed(event, mx, my) ==
    LET tile == IF lastView.isNull THEN NoTile
                ELSE pixelCoordsToTileCoords(mx, my, lastView.gridWidth,
                                             lastView.gridHeight)
    IN  (IF tile.tile THEN <<Signal(event, tile)>> ELSE <<>>)
        \o (IF ~tile.tile /\ event = "tileup"
            THEN <<Signal("tileup", NoTile)>> ELSE <<>>)

\* emitTileEvent(event) with the pointer at (mx, my): the signals emitted
emitTileEvent(event, mx, my) ==
    IF lastView.isNull THEN <<>>
    ELSE LET tile == pixelCoordsToTileCoords(mx, my, lastView.gridWidth,
                                             lastView.gridHeight)
         IN  (IF tile.tile THEN <<Signal(event, tile)>> ELSE <<>>)
             \o (IF ~tile.tile /\ event = "tileup"
                 THEN <<Signal("tileup", NoTile)>> ELSE <<>>)

\* Array.from(e.touches).forEach: one tilemove per touch, each from its own
\* position
\* what a listener of the signals knows of the press: the tile of the last
\* tiledown, until a tileup follows it
RECURSIVE AfterSignals(_, _)
AfterSignals(tile, signals) ==
    IF signals = <<>> THEN tile
    ELSE AfterSignals(
            CASE Head(signals).event = "tiledown" -> Head(signals).payload
              [] Head(signals).event = "tileup" -> NoTile
              [] OTHER -> tile,
            Tail(signals))

RECURSIVE TouchMoves(_)
TouchMoves(touches) ==
    IF touches = <<>> THEN <<>>
    ELSE LET n == Len(touches)
             pos == updateCanvasMousePosition(touches[n])
         IN  TouchMoves(SubSeq(touches, 1, n - 1))
             \o emitTileEvent("tilemove", pos.x, pos.y)

(***************************************************************************)
(* ToneMatrix: the listeners its constructor registers for the renderer's  *)
(* tilemove and tiledown signals.  emit() calls them before it returns; an *)
(* exception one of them throws leaves the input handler at once.          *)
(***************************************************************************)
NullArming == [isNull |-> TRUE, value |-> FALSE]
Arming(bool) == [isNull |-> FALSE, value |-> bool]

\* no ToneMatrix has been constructed around the renderer
NoToneMatrix ==
    /\ destroyed = FALSE
    /\ arming = NullArming
    /\ listeners = <<>>
    /\ looping = FALSE

\* ToneMatrix's listener for the renderer's event is registered
Subscribed(event) ==
    /\ event \in subscribers
    /\ \E k \in DOMAIN listeners : listeners[k] = <<"renderer", event>>

tileClickRearming(st, x, y) ==
    IF x.nan \/ y.nan \/ NoSuchTile(st.grid, x.v, y.v)
    THEN [st EXCEPT !.thrown = TRUE]
    ELSE LET armed == Arming(~getTileValue(st.grid, x.v, y.v))
         IN  [grid |-> setTileValue(st.grid, x.v, y.v, armed.value),
              arming |-> armed,
              thrown |-> setTileValueThrows(st.grid, x.v, y.v, armed.value)]

\* tileClick(x, y) on st = [grid, arming, thrown]: data[index] of a tile
\* that does not exist is undefined, and reading or setting it throws
tileClick(st, x, y) ==
    IF x.nan \/ y.nan \/ NoSuchTile(st.grid, x.v, y.v)
    THEN [st EXCEPT !.thrown = TRUE]
    ELSE LET armed == IF st.arming.isNull
                      THEN Arming(~getTileValue(st.grid, x.v, y.v))
                      ELSE st.arming
         IN  [grid |-> setTileValue(st.grid, x.v, y.v, armed.value),
              arming |-> armed,
              thrown |-> setTileValueThrows(st.grid, x.v, y.v, armed.value)]

\* the listeners of one signal
Listener(st, signal) ==
    CASE signal.event = "tilemove" /\ Subscribed("tilemove") ->
            tileClick(st, signal.payload.x, signal.payload.y)
      [] signal.event = "tiledown" /\ Subscribed("tiledown") ->
            tileClick([st EXCEPT !.arming = NullArming],
                      signal.payload.x, signal.payload.y)
      [] OTHER -> st

\* the signals of one handler, as far as none has thrown
RECURSIVE Delivered(_, _)
Delivered(st, signals) ==
    IF signals = <<>> \/ st.thrown THEN st
    ELSE Delivered(Listener(st, Head(signals)), Tail(signals))

\* the touches forEach walks: all of them, or those up to the first whose
\* tilemove makes a listener throw
Walked(touches) ==
    LET st == [grid |-> grid, arming |-> arming, thrown |-> FALSE]
        throws(k) == Delivered(st, TouchMoves(SubSeq(touches, 1, k))).thrown
    IN  IF throws(Len(touches))
        THEN SubSeq(touches, 1,
                    CHOOSE k \in 1..Len(touches) :
                        throws(k) /\ \A j \in 1..(k - 1) : ~throws(j))
        ELSE touches

\* what the listeners of the handler's signals do to the grid and to
\* arming; a TypeError they throw is the handler's
Heard(signals) ==
    LET st == Delivered([grid |-> grid, arming |-> arming, thrown |-> FALSE],
                        signals)
    IN  /\ grid' = st.grid
        /\ arming' = st.arming
        /\ error' = IF st.thrown THEN "TypeError" ELSE error
        /\ UNCHANGED << destroyed, listeners, looping >>

MouseMoveWithoutDrag(e) ==
    LET pos == updateCanvasMousePosition(e)
    IN  /\ Listening("canvas", "mousemove")
        /\ mouseX' = pos.x
        /\ mouseY' = pos.y
        /\ emitted' = emitTileEvent("tilemove", pos.x, pos.y)
        /\ op' = "mousemove"
        /\ frame' = NoFrame
        /\ pressed' = AfterSignals(pressed, emitted')
        /\ Heard(emitted')
        /\ UNCHANGED << wiringVars, canvas, particles, rendererVars, dragging, probe >>

\* the mousemove listener on event e
MouseMoveWith(e) ==
    LET pos == updateCanvasMousePosition(e)
    IN  /\ Listening("canvas", "mousemove")
        /\ mouseX' = pos.x
        /\ mouseY' = pos.y
        /\ emitted' = IF dragging
                      THEN emitTileEvent("tilemove", pos.x, pos.y)
                      ELSE <<>>
        /\ op' = "mousemove"
        /\ frame' = NoFrame
        /\ pressed' = AfterSignals(pressed, emitted')
        /\ Heard(emitted')
        /\ UNCHANGED << wiringVars, canvas, particles, rendererVars, dragging, probe >>

MouseMove == \E e \in ClientPoints : MouseMoveWith(e)

MouseLeaveDroppingView ==
    /\ Listening("canvas", "mouseleave")
    /\ mouseX' = NaN
    /\ mouseY' = NaN
    /\ emitted' = <<>>
    /\ op' = "mouseleave"
    /\ frame' = NoFrame
    /\ pressed' = AfterSignals(pressed, emitted')
    /\ Heard(emitted')
    /\ lastView' = NullView
    /\ UNCHANGED << wiringVars, canvas, particles, spriteSheet,
                    lastPlayheadX, dragging, probe >>

MouseLeave ==
    /\ Listening("canvas", "mouseleave")
    /\ mouseX' = NaN
    /\ mouseY' = NaN
    /\ emitted' = <<>>
    /\ op' = "mouseleave"
    /\ frame' = NoFrame
    /\ pressed' = AfterSignals(pressed, emitted')
    /\ Heard(emitted')
    /\ UNCHANGED << wiringVars, canvas, particles, rendererVars, dragging, probe >>

\* the mousedown listener on event e; primary: bit 0 of e.buttons
MouseDownWith(e, primary) ==
    LET pos == updateCanvasMousePosition(e)
    IN  /\ Listening("canvas", "mousedown")
        /\ mouseX' = pos.x
        /\ mouseY' = pos.y
        /\ dragging' = IF primary THEN TRUE ELSE dragging
        /\ emitted' = IF primary
                      THEN emitTileEvent("tiledown", pos.x, pos.y)
                      ELSE <<>>
        /\ op' = "mousedown"
        /\ frame' = NoFrame
        /\ pressed' = AfterSignals(pressed, emitted')
        /\ Heard(emitted')
        /\ UNCHANGED << wiringVars, canvas, particles, rendererVars, probe >>

MouseDown ==
    \E e \in ClientPoints, primary \in BOOLEAN : MouseDownWith(e, primary)

MouseUpIgnoredOutsideDrag(primary) == ~dragging

\* mouseup returns early outside a drag and while the left button is held
MouseUpIgnored(primary) == ~dragging \/ primary

\* the document's mouseup listener on event e
MouseUpWith(e, primary) ==
    LET pos == updateCanvasMousePosition(e)
        ignored == MouseUpIgnored(primary)
    IN  /\ Listening("document", "mouseup")
        /\ mouseX' = pos.x
        /\ mouseY' = pos.y
        /\ dragging' = IF ignored THEN dragging ELSE FALSE
        /\ emitted' = IF ignored
                      THEN <<>>
                      ELSE emitTileEvent("tileup", pos.x, pos.y)
        /\ op' = "mouseup"
        /\ frame' = NoFrame
        /\ pressed' = AfterSignals(pressed, emitted')
        /\ Heard(emitted')
        /\ UNCHANGED << wiringVars, canvas, particles, rendererVars, probe >>

MouseUp ==
    \E e \in ClientPoints, primary \in BOOLEAN : MouseUpWith(e, primary)

\* the pointer position after forEach has walked the touches
AfterTouches(touches) ==
    IF touches = <<>> THEN [x |-> mouseX, y |-> mouseY]
    ELSE updateCanvasMousePosition(touches[Len(touches)])

\* the touchstart listener on an event with e.touches = touches
TouchStartWith(touches) ==
    LET walked == IF Len(touches) = 1 THEN touches ELSE Walked(touches)
    IN  /\ Listening("canvas", "touchstart")
        /\ mouseX' = AfterTouches(walked).x
        /\ mouseY' = AfterTouches(walked).y
        /\ emitted' = IF Len(touches) = 1
                      THEN emitTileEvent("tiledown",
                                         AfterTouches(touches).x,
                                         AfterTouches(touches).y)
                      ELSE TouchMoves(walked)
        /\ op' = "touchstart"
        /\ frame' = NoFrame
        /\ pressed' = AfterSignals(pressed, emitted')
        /\ Heard(emitted')
        /\ UNCHANGED << wiringVars, canvas, particles, rendererVars, dragging, probe >>

TouchStart == \E touches \in TouchLists : TouchStartWith(touches)

TouchEnd ==
    /\ Listening("canvas", "touchend")
    /\ mouseX' = NaN
    /\ mouseY' = NaN
    /\ emitted' = emitTileEvent("tileup", NaN, NaN)
    /\ op' = "touchend"
    /\ frame' = NoFrame
    /\ pressed' = AfterSignals(pressed, emitted')
    /\ Heard(emitted')
    /\ UNCHANGED << wiringVars, canvas, particles, rendererVars, dragging, probe >>

\* the touchmove listener on an event with e.touches = touches
TouchMoveWith(touches) ==
    LET walked == Walked(touches)
    IN  /\ Listening("canvas", "touchmove")
        /\ mouseX' = AfterTouches(walked).x
        /\ mouseY' = AfterTouches(walked).y
        /\ emitted' = TouchMoves(walked)
        /\ op' = "touchmove"
        /\ frame' = NoFrame
        /\ pressed' = AfterSignals(pressed, emitted')
        /\ Heard(emitted')
        /\ UNCHANGED << wiringVars, canvas, particles, rendererVars, dragging, probe >>

TouchMove == \E touches \in TouchLists : TouchMoveWith(touches)

(***************************************************************************)
(* The renderer after construction, and its specifications.                *)
(***************************************************************************)
NoProbe == [fn |-> "none", in |-> <<>>, out |-> <<>>]

Constructed(c, g, n) ==
    /\ canvas = c
    /\ grid = g
    /\ particles = NewParticleSystem(n)
    /\ spriteSheet = NullView
    /\ lastView = NullView
    /\ lastPlayheadX = -1
    /\ mouseX = NaN
    /\ mouseY = NaN
    /\ dragging = FALSE
    /\ pressed = NoTile
    /\ op = "constructor"
    /\ emitted = <<>>
    /\ frame = NoFrame
    /\ ctx = "2d"
    /\ error = ""
    /\ internalListeners = ConstructorListeners
    /\ domListeners = {ConstructorListeners[k] : k \in DOMAIN ConstructorListeners}
    /\ subscribers = {}
    /\ disposals = 0
    /\ NoToneMatrix

Init ==
    \E c \in Canvases, shape \in GridShapes :
        Constructed(c, NewGrid(shape), MaxPool) /\ probe = NoProbe

\* frames and input events on grids that are handed over unlit, while the
\* transport rests at the start of the loop
Next ==
    \/ Update
    \/ Resize
    \/ SetGrid /\ grid'.playheadX = 0
    \/ MouseMove
    \/ MouseLeave
    \/ MouseDown
    \/ MouseUp
    \/ TouchStart
    \/ TouchEnd
    \/ TouchMove

Spec == Init /\ [][Next]_vars

\* frames only: between frames the playhead moves and tiles are toggled;
\* the pointer stays absent
InitFrame ==
    \E c \in Canvases, shape \in GridShapes :
        Constructed(c, NewGrid(shape), MaxPool) /\ probe = NoProbe

NextFrame ==
    \/ Update
    \/ MovePlayhead
    \/ ToggleTile

SpecFrame == InitFrame /\ [][NextFrame]_vars

(***************************************************************************)
(* Frames with a pointer: the mouse moves over the canvas and leaves it    *)
(* while tiles are toggled and the playhead moves; the canvas is 12 by 12  *)
(* and the pool has one slot.                                              *)
(***************************************************************************)
\* client positions over the canvas: pixel (2, 2), in tile (0, 0), and
\* pixel (2, 8), in the last row of a grid two or three rows high
HoverPoints == {<<2, 2>>, <<2, 5>>}

InitDraw ==
    \E shape \in GridShapes :
        Constructed([width |-> 12, height |-> 12], NewGrid(shape), 1)
        /\ probe = NoProbe

NextDraw ==
    \/ Update
    \/ MovePlayhead
    \/ ToggleTile
    \/ \E e \in HoverPoints : MouseMoveWith(e)
    \/ MouseLeave

SpecDraw == InitDraw /\ [][NextDraw]_vars

(***************************************************************************)
(* Frames over a pool whose particles have drifted: a renderer between two *)
(* frames, with live particles over tiles, on the canvas's edges and past  *)
(* them.                                                                   *)
(***************************************************************************)
\* positions a particle can have drifted to: over the first and the last
\* rows and columns of a canvas 12 wide, and left, right and below of it
DriftPoints ==
    {<<2, 2>>, <<2, 10>>, <<10, 2>>, <<2, 13>>, <<10, 13>>, <<-1, 2>>, <<13, 2>>}

\* a particle at rest that has one more frame to live, or none
DriftedParticles ==
    {DeadParticle}
    \cup {[x |-> pt[1], y |-> pt[2], vx |-> 0, vy |-> 0, life |-> life] :
              pt \in DriftPoints, life \in 1..PARTICLE_LIFETIME}

\* the renderer between two frames on canvas c and grid g, its pool ps
BetweenFrames(c, g, ps) ==
    /\ canvas = c
    /\ grid = g
    /\ particles = ps
    /\ spriteSheet = View(g.width, g.height, c.width, c.height)
    /\ lastView = View(g.width, g.height, c.width, c.height)
    /\ lastPlayheadX = g.playheadX
    /\ mouseX = NaN
    /\ mouseY = NaN
    /\ dragging = FALSE
    /\ pressed = NoTile
    /\ op = "playhead"
    /\ emitted = <<>>
    /\ frame = NoFrame
    /\ probe = NoProbe
    /\ ctx = "2d"
    /\ error = ""
    /\ internalListeners = ConstructorListeners
    /\ domListeners = {ConstructorListeners[k] : k \in DOMAIN ConstructorListeners}
    /\ subscribers = {}
    /\ disposals = 0
    /\ NoToneMatrix

InitHeat ==
    \E c \in Canvases, shape \in GridShapes,
       ps \in [1..MaxPool -> DriftedParticles] :
        BetweenFrames(c, NewGrid(shape), ps)

NextHeat ==
    \/ Update
    \/ MouseMove

SpecHeat == InitHeat /\ [][NextHeat]_vars

(***************************************************************************)
(* The particle pool on its own: advance() and createParticleBurst() with  *)
(* any burst size, and the canvas resized in between.                      *)
(***************************************************************************)
BurstCentres == {<<3, 3>>, <<9, 9>>}

PoolAdvance ==
    /\ particles' = ParticleUpdate(particles)
    /\ op' = "advance"
    /\ frame' = NoFrame
    /\ emitted' = <<>>
    /\ probe' = NoProbe
    /\ UNCHANGED << appVars, lifeVars, canvas, grid, rendererVars, pointerVars >>

PoolBurst ==
    \E c \in BurstCentres, amount \in 0..MaxBurstCount :
        \E rnd \in RandomDraws(particles, <<amount>>) :
            /\ particles' = createParticleBurst(particles, c[1], c[2], amount, rnd)
            /\ op' = "createParticleBurst"
            /\ frame' = NoFrame
            /\ emitted' = <<>>
            /\ probe' = [fn |-> "createParticleBurst",
                         in |-> <<c[1], c[2], amount>>,
                         out |-> particles]
            /\ UNCHANGED << appVars, lifeVars, canvas, grid, rendererVars, pointerVars >>

InitPool ==
    \E c \in Canvases, n \in 1..MaxPool :
        Constructed(c, NewGrid(<<2, 2>>), n) /\ probe = NoProbe

NextPool ==
    \/ PoolAdvance
    \/ PoolBurst
    \/ Resize

SpecPool == InitPool /\ [][NextPool]_vars

(***************************************************************************)
(* The coordinate mapper on its own: the initial state draws one call of a *)
(* pure function from the bounded sets, and the action makes it.           *)
(***************************************************************************)
ProbeShapes ==
    {<<w, h>> : w \in 1..MaxGridSide, h \in 1..MaxGridSide} \cup {<<16, 16>>}

ProbeCanvases == Canvases \cup {[width |-> 32, height |-> 32]}

Pending(fn, in) == [fn |-> fn, in |-> in, out |-> <<>>]

\* <<x, y, gridWidth, gridHeight>> for pixelCoordsToTileCoords on canvas c
PixelCalls(c) ==
    {<<x, y, shape[1], shape[2]>> :
        x \in (-PixelMargin)..(c.width + PixelMargin),
        y \in (-PixelMargin)..(c.height + PixelMargin),
        shape \in ProbeShapes}

\* <<x, y, width, height>>: a tile of a width * height grid
CoordCalls ==
    UNION {{<<x, y, width, height>> : x \in 0..(width - 1), y \in 0..(height - 1)} :
              width \in 1..MaxGridSide, height \in 1..MaxGridSide}

\* <<i, width, height>>: an index of a width * height grid
IndexCalls ==
    UNION {{<<i, width, height>> : i \in 0..(width * height - 1)} :
              width \in 1..MaxGridSide, height \in 1..MaxGridSide}

CallPixelCoordsToTileCoords ==
    /\ probe.fn = "pixelCoordsToTileCoords"
    /\ op = "constructor"
    /\ probe' = [probe EXCEPT !.out =
                    pixelCoordsToTileCoords(Num(probe.in[1]), Num(probe.in[2]),
                                            probe.in[3], probe.in[4])]
    /\ op' = "pixelCoordsToTileCoords"
    /\ UNCHANGED << appVars, lifeVars, canvas, grid, particles, rendererVars, pointerVars,
                    emitted, frame >>

\* indexToCoord(coordToIndex(x, y, height), height)
CoordRoundTrip ==
    /\ probe.fn = "coordRoundTrip"
    /\ op = "constructor"
    /\ probe' = [probe EXCEPT !.out =
                    indexToCoord(coordToIndex(probe.in[1], probe.in[2], probe.in[4]),
                                 probe.in[4])]
    /\ op' = "coordRoundTrip"
    /\ UNCHANGED << appVars, lifeVars, canvas, grid, particles, rendererVars, pointerVars,
                    emitted, frame >>

\* coordToIndex(indexToCoord(i, height), height)
IndexRoundTrip ==
    /\ probe.fn = "indexRoundTrip"
    /\ op = "constructor"
    /\ probe' = [probe EXCEPT !.out =
                    coordToIndex(indexToCoord(probe.in[1], probe.in[3]).x,
                                 indexToCoord(probe.in[1], probe.in[3]).y,
                                 probe.in[3])]
    /\ op' = "indexRoundTrip"
    /\ UNCHANGED << appVars, lifeVars, canvas, grid, particles, rendererVars, pointerVars,
                    emitted, frame >>

InitCoord ==
    \E c \in ProbeCanvases :
        /\ Constructed(c, NewGrid(<<2, 2>>), 1)
        /\ \/ \E in \in PixelCalls(c) : probe = Pending("pixelCoordsToTileCoords", in)
           \/ \E in \in CoordCalls : probe = Pending("coordRoundTrip", in)
           \/ \E in \in IndexCalls : probe = Pending("indexRoundTrip", in)

NextCoord ==
    \/ CallPixelCoordsToTileCoords
    \/ CoordRoundTrip
    \/ IndexRoundTrip

SpecCoord == InitCoord /\ [][NextCoord]_vars

(***************************************************************************)
(* The renderer's life: construction on a canvas that may have no 2-D      *)
(* context, subscriptions to its tile events, and dispose().               *)
(***************************************************************************)
\* the field initialisers, before the constructor's body has run
Unconstructed(c, g) ==
    /\ canvas = c
    /\ grid = g
    /\ particles = <<>>
    /\ spriteSheet = NullView
    /\ lastView = NullView
    /\ lastPlayheadX = -1
    /\ mouseX = NaN
    /\ mouseY = NaN
    /\ dragging = FALSE
    /\ pressed = NoTile
    /\ op = "none"
    /\ emitted = <<>>
    /\ frame = NoFrame
    /\ probe = NoProbe
    /\ ctx = "none"
    /\ error = ""
    /\ internalListeners = <<>>
    /\ domListeners = {}
    /\ subscribers = {}
    /\ disposals = 0
    /\ NoToneMatrix

ConstructorListensBeforeContext(hasContext) == ConstructorListeners

\* the listen() calls the constructor has made when it returns or throws:
\* the context is checked before the first of them
ConstructorListens(hasContext) ==
    IF hasContext THEN ConstructorListeners ELSE <<>>

\* new GridCanvasRenderer(canvas); hasContext: canvas.getContext('2d') is
\* not null
Construct ==
    \E hasContext \in BOOLEAN :
        /\ op = "none"
        /\ particles' = NewParticleSystem(MaxPool)
        /\ ctx' = IF hasContext THEN "2d" ELSE "none"
        /\ error' = IF hasContext THEN "" ELSE "Unable to get canvas context"
        /\ internalListeners' = ConstructorListens(hasContext)
        /\ domListeners' = {ConstructorListens(hasContext)[k] :
                                k \in DOMAIN ConstructorListens(hasContext)}
        /\ op' = "constructor"
        /\ UNCHANGED << appVars, canvas, grid, rendererVars, pointerVars, emitted,
                        frame, probe, subscribers, disposals >>

\* the tile events the application subscribes to
TileSubscriptions == {"tilemove", "tiledown"}

\* renderer.on(event, listener): the listener joins the event's listeners,
\* whether or not the event has one already
Subscribe ==
    \E event \in TileSubscriptions :
        /\ ctx = "2d"
        /\ subscribers' = subscribers \cup {event}
        /\ op' = "on"
        /\ emitted' = <<>>
        /\ frame' = NoFrame
        /\ UNCHANGED << appVars, canvas, grid, particles, rendererVars, pointerVars,
                        probe, ctx, error, internalListeners, domListeners,
                        disposals >>

\* renderer.off(event, listener): only the given listener leaves; others:
\* the event keeps a listener, because this one was not registered for it
\* or was not its only one
Unsubscribe ==
    \E event \in TileSubscriptions, others \in BOOLEAN :
        /\ ctx = "2d"
        /\ subscribers' = IF others THEN subscribers ELSE subscribers \ {event}
        /\ op' = "off"
        /\ emitted' = <<>>
        /\ frame' = NoFrame
        /\ UNCHANGED << appVars, canvas, grid, particles, rendererVars,
                        pointerVars, probe, ctx, error, internalListeners,
                        domListeners, disposals >>

UnregisteredFromCanvas(registered) ==
    {registered[k] : k \in {j \in DOMAIN registered : registered[j][1] = "canvas"}}

\* the registrations dispose() removes: one removeEventListener call per
\* entry of internalListeners, whatever its target
Unregistered(registered) == {registered[k] : k \in DOMAIN registered}

\* dispose(): removeAllListeners(), then every internal listener is taken
\* off its target; internalListeners itself is kept
Dispose ==
    /\ ctx = "2d"
    /\ subscribers' = {}
    /\ domListeners' = domListeners \ Unregistered(internalListeners)
    /\ disposals' = disposals + 1
    /\ op' = "dispose"
    /\ emitted' = <<>>
    /\ frame' = NoFrame
    /\ UNCHANGED << appVars, canvas, grid, particles, rendererVars, pointerVars, probe,
                    ctx, error, internalListeners >>

InitLife ==
    \E c \in Canvases, shape \in GridShapes : Unconstructed(c, NewGrid(shape))

NextLife ==
    \/ Construct
    \/ Subscribe
    \/ Unsubscribe
    \/ disposals < MaxDisposals /\ Dispose
    \/ Update
    \/ MouseMove
    \/ MouseLeave
    \/ MouseDown
    \/ MouseUp
    \/ TouchStart
    \/ TouchEnd
    \/ TouchMove

SpecLife == InitLife /\ [][NextLife]_vars

(***************************************************************************)
(* ToneMatrix: the savestate.  A string is a sequence of one-character     *)
(* strings.                                                                *)
(***************************************************************************)
\* the digits of base64, in the order of their values 0..63
Base64Digits ==
    << "A", "B", "C", "D", "E", "F", "G", "H",
       "I", "J", "K", "L", "M", "N", "O", "P",
       "Q", "R", "S", "T", "U", "V", "W", "X",
       "Y", "Z", "a", "b", "c", "d", "e", "f",
       "g", "h", "i", "j", "k", "l", "m", "n",
       "o", "p", "q", "r", "s", "t", "u", "v",
       "w", "x", "y", "z", "0", "1", "2", "3",
       "4", "5", "6", "7", "8", "9", "+", "/" >>

Base64Digit(v) == Base64Digits[v + 1]

Base64Value(c) == (CHOOSE k \in 1..64 : Base64Digits[k] = c) - 1

IsBase64Digit(c) == \E k \in 1..64 : Base64Digits[k] = c

\* btoa(binary): three bytes make four digits, a rest of one or two bytes
\* is padded with "="
RECURSIVE btoa(_)
btoa(bytes) ==
    IF bytes = <<>> THEN <<>>
    ELSE IF Len(bytes) = 1
    THEN << Base64Digit(bytes[1] \div 4), Base64Digit((bytes[1] % 4) * 16),
            "=", "=" >>
    ELSE IF Len(bytes) = 2
    THEN << Base64Digit(bytes[1] \div 4),
            Base64Digit((bytes[1] % 4) * 16 + bytes[2] \div 16),
            Base64Digit((bytes[2] % 16) * 4), "=" >>
    ELSE << Base64Digit(bytes[1] \div 4),
            Base64Digit((bytes[1] % 4) * 16 + bytes[2] \div 16),
            Base64Digit((bytes[2] % 16) * 4 + bytes[3] \div 64),
            Base64Digit(bytes[3] % 64) >>
         \o btoa(SubSeq(bytes, 4, Len(bytes)))

\* the result of a call that throws
Thrown == << "thrown" >>

\* atob drops ASCII whitespace before it decodes
AsciiWhitespace == {"\t", "\n", "\f", "\r", " "}

WithoutWhitespace(str) == SelectSeq(str, LAMBDA c : c \notin AsciiWhitespace)

\* base64 without its padding: one or two "=" at the end of a string whose
\* length is a multiple of four are dropped
Unpadded(str) ==
    LET n == Len(str)
    IN  IF n = 0 \/ n % 4 # 0 \/ str[n] # "=" THEN str
        ELSE IF str[n - 1] = "=" THEN SubSeq(str, 1, n - 2)
        ELSE SubSeq(str, 1, n - 1)

\* what atob gives in place of bytes when it throws InvalidCharacterError
InvalidCharacter == << -1 >>

\* the bytes of unpadded base64 digits: four digits make three bytes, a
\* rest of two or three digits one or two bytes; InvalidCharacter for a
\* character that is no digit and for a rest of one digit
RECURSIVE Base64Bytes(_)
Base64Bytes(str) ==
    LET n == Len(str)
        v(k) == Base64Value(str[k])
    IN  IF n = 0 THEN <<>>
        ELSE IF n = 1 \/ \E k \in 1..(IF n < 4 THEN n ELSE 4) :
                             ~IsBase64Digit(str[k])
        THEN InvalidCharacter
        ELSE IF n = 2 THEN << v(1) * 4 + v(2) \div 16 >>
        ELSE IF n = 3 THEN << v(1) * 4 + v(2) \div 16,
                              (v(2) % 16) * 16 + v(3) \div 4 >>
        ELSE LET rest == Base64Bytes(SubSeq(str, 5, n))
             IN  IF rest = InvalidCharacter THEN InvalidCharacter
                 ELSE << v(1) * 4 + v(2) \div 16,
                         (v(2) % 16) * 16 + v(3) \div 4,
                         (v(3) % 4) * 64 + v(4) >> \o rest

\* atob(base64): the bytes, or InvalidCharacter for a string that is not
\* base64
atob(str) == Base64Bytes(Unpadded(WithoutWhitespace(str)))

\* encodeURIComponent(base64): letters and digits stay, the other three
\* characters of base64 are escaped
RECURSIVE encodeURIComponent(_)
encodeURIComponent(str) ==
    IF str = <<>> THEN <<>>
    ELSE (CASE Head(str) = "+" -> << "%", "2", "B" >>
            [] Head(str) = "/" -> << "%", "2", "F" >>
            [] Head(str) = "=" -> << "%", "3", "D" >>
            [] OTHER -> << Head(str) >>)
         \o encodeURIComponent(Tail(str))

\* the printable characters of ASCII, in the order of their codes 32..126;
\* the grave accent, which no string of this notation holds, as its escape
Ascii ==
    << " ", "!", "\"", "#", "$", "%", "&", "'", "(", ")", "*", "+", ",", "-",
       ".", "/", "0", "1", "2", "3", "4", "5", "6", "7", "8", "9", ":", ";",
       "<", "=", ">", "?", "@", "A", "B", "C", "D", "E", "F", "G", "H", "I",
       "J", "K", "L", "M", "N", "O", "P", "Q", "R", "S", "T", "U", "V", "W",
       "X", "Y", "Z", "[", "\\", "]", "^", "_", "\\u0060", "a", "b", "c", "d", "e",
       "f", "g", "h", "i", "j", "k", "l", "m", "n", "o", "p", "q", "r", "s",
       "t", "u", "v", "w", "x", "y", "z", "{", "|", "}", "~" >>

HexDigits ==
    << "0", "1", "2", "3", "4", "5", "6", "7",
       "8", "9", "A", "B", "C", "D", "E", "F" >>

LowerHexDigits == << "a", "b", "c", "d", "e", "f" >>

\* the value of a hexadecimal digit, upper or lower case; -1 for any other
\* character
HexValue(c) ==
    IF \E k \in 1..16 : HexDigits[k] = c
    THEN (CHOOSE k \in 1..16 : HexDigits[k] = c) - 1
    ELSE IF \E k \in 1..6 : LowerHexDigits[k] = c
    THEN (CHOOSE k \in 1..6 : LowerHexDigits[k] = c) + 9
    ELSE -1

\* one UTF-16 code unit as a character of a string: itself when it is
\* printable ASCII or whitespace, its escape \uXXXX otherwise
CodeUnit(code) ==
    CASE code \in 32..126 -> Ascii[code - 31]
      [] code = 9 -> "\t"
      [] code = 10 -> "\n"
      [] code = 12 -> "\f"
      [] code = 13 -> "\r"
      [] OTHER -> "\\u" \o HexDigits[(code \div 4096) + 1]
                        \o HexDigits[((code \div 256) % 16) + 1]
                        \o HexDigits[((code \div 16) % 16) + 1]
                        \o HexDigits[(code % 16) + 1]

\* the characters of one code point: a surrogate pair above the basic plane
CodePointChars(cp) ==
    IF cp < 65536 THEN << CodeUnit(cp) >>
    ELSE << CodeUnit(55296 + ((cp - 65536) \div 1024)),
            CodeUnit(56320 + ((cp - 65536) % 1024)) >>

\* the byte of the escape %XX that starts at str[k]; -1 when there is no
\* such escape
EscapedByte(str, k) ==
    IF k + 2 > Len(str) \/ str[k] # "%" THEN -1
    ELSE IF HexValue(str[k + 1]) < 0 \/ HexValue(str[k + 2]) < 0 THEN -1
    ELSE HexValue(str[k + 1]) * 16 + HexValue(str[k + 2])

\* the number of bytes of the UTF-8 sequence a byte leads; 0 for a byte
\* that leads none
Utf8Length(byte) ==
    IF byte < 128 THEN 1
    ELSE IF byte < 192 THEN 0
    ELSE IF byte < 224 THEN 2
    ELSE IF byte < 240 THEN 3
    ELSE IF byte < 248 THEN 4
    ELSE 0

\* the code point of the escapes %XX%XX.. at the head of str, n of them;
\* -1 when they are no valid UTF-8 encoding of a code point
EscapedCodePoint(str, n) ==
    LET b(i) == EscapedByte(str, 3 * i - 2)
        tail(i) == b(i) - 128
    IN  IF n = 0 \/ \E i \in 2..n : b(i) \notin 128..191 THEN -1
        ELSE IF n = 1 THEN b(1)
        ELSE IF n = 2
        THEN LET cp == (b(1) - 192) * 64 + tail(2)
             IN  IF cp < 128 THEN -1 ELSE cp
        ELSE IF n = 3
        THEN LET cp == (b(1) - 224) * 4096 + tail(2) * 64 + tail(3)
             IN  IF cp < 2048 \/ cp \in 55296..57343 THEN -1 ELSE cp
        ELSE LET cp == (b(1) - 240) * 262144 + tail(2) * 4096
                       + tail(3) * 64 + tail(4)
             IN  IF cp < 65536 \/ cp > 1114111 THEN -1 ELSE cp

\* decodeURIComponent(base64enc): every escape is resolved to the
\* character it encodes in UTF-8; Thrown (URIError) for an escape that is
\* cut short, has no two hexadecimal digits or encodes no code point
RECURSIVE decodeURIComponent(_)
decodeURIComponent(str) ==
    IF str = <<>> THEN <<>>
    ELSE IF Head(str) # "%"
    THEN LET rest == decodeURIComponent(Tail(str))
         IN  IF rest = Thrown THEN Thrown ELSE << Head(str) >> \o rest
    ELSE IF EscapedByte(str, 1) < 0 THEN Thrown
    ELSE LET n == Utf8Length(EscapedByte(str, 1))
             cp == EscapedCodePoint(str, n)
             rest == decodeURIComponent(SubSeq(str, 3 * n + 1, Len(str)))
         IN  IF cp < 0 THEN Thrown
             ELSE IF rest = Thrown THEN Thrown
             ELSE CodePointChars(cp) \o rest

\* the power of two a bit of a byte stands for: parseInt(str, 2) reads the
\* first character as the highest bit
RECURSIVE Pow2(_)
Pow2(n) == IF n = 0 THEN 1 ELSE 2 * Pow2(n - 1)

\* the number of bytes of a savestate, for a data length that is a
\* multiple of 8
ByteCount(g) == g.length \div 8

\* bytes[i] of toBase64, i from 0: bit j is tile coordToIndex(i, j, 8)
SaveByte(g, i) ==
    LET bit(j) == IF coordToIndex(i, j, 8) \in g.lit THEN Pow2(7 - j) ELSE 0
    IN  bit(0) + bit(1) + bit(2) + bit(3) + bit(4) + bit(5) + bit(6) + bit(7)

\* toBase64(): the savestate string, empty for an empty grid
toBase64(g) ==
    IF g.lit = {} THEN <<>>
    ELSE encodeURIComponent(
             btoa([i \in 1..ByteCount(g) |-> SaveByte(g, i - 1)]))

\* the bit string fromBase64 reads from binary, as booleans: byte i gives
\* eight bits, the highest first; a byte that is missing gives none set
LoadBit(binary, k) ==
    LET i == k \div 8
        j == k % 8
    IN  /\ i < Len(binary)
        /\ (binary[i + 1] \div Pow2(7 - j)) % 2 = 1

\* the loop over the bits from bit k on: setTileValue for each, until one
\* throws
RECURSIVE LoadBits(_, _, _)
LoadBits(g, binary, k) ==
    IF k >= 8 * ByteCount(g) THEN g
    ELSE LET x == k \div g.width
             y == k % g.width
             bool == LoadBit(binary, k)
         IN  IF setTileValueThrows(g, x, y, bool) THEN g
             ELSE LoadBits(setTileValue(g, x, y, bool), binary, k + 1)

\* fromBase64(base64enc): the grid afterwards; whatever is thrown is caught
fromBase64(g, base64enc) ==
    LET base64 == decodeURIComponent(base64enc)
    IN  IF base64 = Thrown THEN g
        ELSE LET binary == atob(base64)
             IN  IF binary = InvalidCharacter THEN g
                 ELSE LoadBits(g, binary, 0)

(***************************************************************************)
(* The grid on its own: its methods called with every coordinate of the    *)
(* grid and with instrument ids within and outside the instruments.        *)
(***************************************************************************)
\* the instrument ids setCurrentInstrument is called with
InstrumentIds == (-1)..InstrumentCount

\* the coordinates of the grid's tiles
TileCoords(g) == (0..(g.width - 1)) \X (0..(g.height - 1))

\* a call of a grid method: no frame, no signal
GridCall(name, thrown) ==
    /\ op' = name
    /\ error' = IF thrown THEN "TypeError" ELSE ""
    /\ emitted' = <<>>
    /\ frame' = NoFrame
    /\ UNCHANGED << appVars, canvas, particles, rendererVars, pointerVars, probe,
                    ctx, internalListeners, domListeners, subscribers,
                    disposals >>

SetTileValueWith(x, y, bool) ==
    /\ grid' = setTileValue(grid, x, y, bool)
    /\ GridCall("setTileValue", setTileValueThrows(grid, x, y, bool))

SetTileValue ==
    \E t \in TileCoords(grid), bool \in BOOLEAN :
        SetTileValueWith(t[1], t[2], bool)

ToggleTileValueWith(x, y) ==
    /\ grid' = toggleTileValue(grid, x, y)
    /\ GridCall("toggleTileValue",
                setTileValueThrows(grid, x, y, ~getTileValue(grid, x, y)))

ToggleTileValue == \E t \in TileCoords(grid) : ToggleTileValueWith(t[1], t[2])

SetCurrentInstrumentWith(instrumentId) ==
    /\ grid' = setCurrentInstrument(grid, instrumentId)
    /\ GridCall("setCurrentInstrument", FALSE)

SetCurrentInstrument ==
    \E instrumentId \in InstrumentIds : SetCurrentInstrumentWith(instrumentId)

ClearAllTiles ==
    /\ grid' = clearAllTiles(grid)
    /\ GridCall("clearAllTiles", FALSE)

InitGrid ==
    \E shape \in GridShapes :
        Constructed([width |-> 12, height |-> 12], NewGrid(shape), 1)
        /\ probe = NoProbe

NextGrid ==
    \/ SetTileValue
    \/ ToggleTileValue
    \/ SetCurrentInstrument
    \/ ClearAllTiles

SpecGrid == InitGrid /\ [][NextGrid]_vars

(***************************************************************************)
(* The savestate on its own: tiles are set and cleared, the grid is saved, *)
(* the string of the last save or another string is loaded.  The caller's  *)
(* copy of the savestate is probe.out, the lit tiles it was taken from     *)
(* probe.in[1].                                                            *)
(***************************************************************************)
\* grid shapes whose number of tiles is a multiple of 8
SaveShapes == {<<4, 2>>, <<2, 4>>, <<4, 4>>}

\* the tiles that are set and cleared: the six tiles of the first base64
\* digit and the last tile
EditCoords(g) ==
    {<<indexToCoord(i, g.height).x, indexToCoord(i, g.height).y>> :
        i \in (0..5) \cup {g.length - 1}}

\* strings handed to fromBase64 besides the last save: the empty string,
\* an escape cut short, and "AA==" with its first letter escaped
OtherStrings ==
    {<<>>, << "%" >>, << "%", "4", "1", "A", "%", "3", "D", "%", "3", "D" >>}

EditTile ==
    \E t \in EditCoords(grid), bool \in BOOLEAN :
        SetTileValueWith(t[1], t[2], bool)

ToBase64 ==
    /\ probe' = [fn |-> "toBase64", in |-> << grid.lit >>,
                 out |-> toBase64(grid)]
    /\ op' = "toBase64"
    /\ error' = ""
    /\ emitted' = <<>>
    /\ frame' = NoFrame
    /\ UNCHANGED << appVars, canvas, grid, particles, rendererVars, pointerVars,
                    ctx, internalListeners, domListeners, subscribers,
                    disposals >>

FromBase64With(base64enc) ==
    /\ grid' = fromBase64(grid, base64enc)
    /\ GridCall("fromBase64", FALSE)

FromBase64 ==
    \E base64enc \in OtherStrings
                      \cup (IF probe.fn = "toBase64" THEN {probe.out} ELSE {}) :
        FromBase64With(base64enc)

InitSave ==
    \E shape \in SaveShapes :
        Constructed([width |-> 12, height |-> 12], NewGrid(shape), 1)
        /\ probe = NoProbe

NextSave ==
    \/ EditTile
    \/ ClearAllTiles
    \/ ToBase64
    \/ FromBase64

SpecSave == InitSave /\ [][NextSave]_vars

(***************************************************************************)
(* ToneMatrix as a whole: its constructor has built the grid, the canvas   *)
(* and the renderer, subscribed to the renderer's signals and requested    *)
(* the first frame.  The transport stands still.                           *)
(***************************************************************************)
\* new ToneMatrix(wrapper, width, height): square, wide and tall grids
AppShapes == {<<2, 2>>, <<3, 2>>, <<2, 3>>}

\* rect.height of the new canvas, in CSS pixels
AppRectHeight == 6

\* the backing store the constructor gives the canvas
AppCanvas(shape) ==
    [width |-> (AppRectHeight * shape[1] * getDevicePixelRatio) \div shape[2],
     height |-> AppRectHeight * getDevicePixelRatio]

\* this.listeners after the constructor; clickToPlay: the window has
\* ontouchstart or the location a "?"
AppListeners(clickToPlay) ==
    << <<"renderer", "tilemove">>, <<"renderer", "tiledown">> >>
    \o (IF clickToPlay THEN << <<"wrapper", "click">> >> ELSE <<>>)

\* the client positions of the application's pointers: over tile (0, 0),
\* over tile (1, 0), and beyond the lower right corner of the canvas
AppPoints == {<<2, 2>>, <<4, 2>>, <<8, 8>>}

\* the canvas is under the client position
OverCanvas(e) ==
    /\ e[1] >= ClientRect.left
    /\ e[1] < ClientRect.left + ClientRect.width
    /\ e[2] >= ClientRect.top
    /\ e[2] < ClientRect.top + ClientRect.height

\* e.touches of the application's touch events
AppTouchLists == SeqsUpTo(AppPoints, MaxTouches)

\* the callback of requestAnimationFrame
AnimationFrame ==
    /\ looping
    /\ \/ /\ ~destroyed
          /\ RendererUpdate
          /\ looping' = ~NoSuchInstrument(grid)
          /\ UNCHANGED << destroyed, arming, listeners >>
       \/ /\ destroyed
          /\ looping' = FALSE
          /\ op' = "updateContinuous"
          /\ emitted' = <<>>
          /\ frame' = NoFrame
          /\ UNCHANGED << canvas, grid, particles, rendererVars, pointerVars,
                          probe, lifeVars, destroyed, arming, listeners >>

\* ToneMatrix.dispose()
DisposeToneMatrix ==
    /\ destroyed' = TRUE
    /\ grid' = disposeGrid(grid)
    /\ subscribers' = subscribers
                        \ {listeners[k][2] :
                              k \in {j \in DOMAIN listeners :
                                        listeners[j][1] = "renderer"}}
    /\ domListeners' = domListeners
                         \ {listeners[k] :
                               k \in {j \in DOMAIN listeners :
                                         listeners[j][1] # "renderer"}}
    /\ listeners' = <<>>
    /\ op' = "ToneMatrix.dispose"
    /\ emitted' = <<>>
    /\ frame' = NoFrame
    /\ UNCHANGED << canvas, particles, rendererVars, pointerVars, probe, ctx,
                    error, internalListeners, disposals, arming, looping >>

\* mouse events reach the canvas's listeners from positions over it, the
\* document's from everywhere
AppMouseMove == \E e \in AppPoints : OverCanvas(e) /\ MouseMoveWith(e)

AppMouseDown ==
    \E e \in AppPoints, primary \in BOOLEAN :
        OverCanvas(e) /\ MouseDownWith(e, primary)

AppMouseUp ==
    \E e \in AppPoints, primary \in BOOLEAN : MouseUpWith(e, primary)

\* a touch starts over the canvas; the touches held meanwhile are anywhere
AppTouchStart ==
    \E touches \in AppTouchLists :
        /\ \E k \in DOMAIN touches : OverCanvas(touches[k])
        /\ TouchStartWith(touches)

AppTouchMove ==
    \E touches \in AppTouchLists : touches # <<>> /\ TouchMoveWith(touches)

InitApp ==
    \E shape \in AppShapes, clickToPlay \in BOOLEAN :
        /\ canvas = AppCanvas(shape)
        /\ grid = NewGrid(shape)
        /\ particles = NewParticleSystem(1)
        /\ spriteSheet = NullView
        /\ lastView = NullView
        /\ lastPlayheadX = -1
        /\ mouseX = NaN
        /\ mouseY = NaN
        /\ dragging = FALSE
        /\ pressed = NoTile
        /\ op = "constructor"
        /\ emitted = <<>>
        /\ frame = NoFrame
        /\ probe = NoProbe
        /\ ctx = "2d"
        /\ error = ""
        /\ internalListeners = ConstructorListeners
        /\ domListeners =
              {ConstructorListeners[k] : k \in DOMAIN ConstructorListeners}
              \cup (IF clickToPlay THEN {<<"wrapper", "click">>} ELSE {})
        /\ subscribers = {"tilemove", "tiledown"}
        /\ disposals = 0
        /\ destroyed = FALSE
        /\ arming = NullArming
        /\ listeners = AppListeners(clickToPlay)
        /\ looping = TRUE

NextApp ==
    \/ AnimationFrame
    \/ AppMouseMove
    \/ MouseLeave
    \/ AppMouseDown
    \/ AppMouseUp
    \/ AppTouchStart
    \/ TouchEnd
    \/ AppTouchMove
    \/ ClearAllTiles
    \/ DisposeToneMatrix

SpecApp == InitApp /\ [][NextApp]_vars

(***************************************************************************)
(* Properties.                                                             *)
(***************************************************************************)
InsideCanvas(x, y) ==
    /\ 0 <= x /\ x < canvas.width
    /\ 0 <= y /\ y < canvas.height

\* C1: a pixel inside the canvas maps to a tile within the grid's bounds,
\* and a pixel outside [0, canvasWidth) x [0, canvasHeight) maps to no
\* tile, for every grid shape.
C1_PixelMapsToTileIffInsideCanvas ==
    op = "pixelCoordsToTileCoords" =>
        LET x == probe.in[1]
            y == probe.in[2]
            gridWidth == probe.in[3]
            gridHeight == probe.in[4]
        IN  IF InsideCanvas(x, y)
            THEN /\ probe.out.tile
                 /\ 0 <= probe.out.x.v /\ probe.out.x.v < gridWidth
                 /\ 0 <= probe.out.y.v /\ probe.out.y.v < gridHeight
            ELSE probe.out = NoTile

\* C6: indexToCoord(coordToIndex(x, y, height), height) is (x, y) for every
\* tile of a width * height grid, and coordToIndex of indexToCoord(i,
\* height) is i for every index i of it.
C6_CoordIndexRoundTrip ==
    /\ op = "coordRoundTrip" =>
           probe.out = [x |-> probe.in[1], y |-> probe.in[2]]
    /\ op = "indexRoundTrip" => probe.out = probe.in[1]

\* a tile off the diagonal of a grid that is not square has made the trip
C6_Witness ==
    /\ op = "coordRoundTrip"
    /\ probe.in = <<2, 1, 3, 2>>
    /\ probe.out = [x |-> 2, y |-> 1]

\* C7: every pixel of the cell of tile (tx, ty), its centre included, maps
\* to exactly that tile, for every tile of every grid.
C7_CellPixelsMapToTheirTile ==
    op = "pixelCoordsToTileCoords" =>
        LET x == probe.in[1]
            y == probe.in[2]
            gridWidth == probe.in[3]
            gridHeight == probe.in[4]
        IN  \A tx \in 0..(gridWidth - 1), ty \in 0..(gridHeight - 1) :
                ( /\ tx * canvas.width <= x * gridWidth
                  /\ x * gridWidth < (tx + 1) * canvas.width
                  /\ ty * canvas.height <= y * gridHeight
                  /\ y * gridHeight < (ty + 1) * canvas.height )
                => probe.out = Tile(Num(tx), Num(ty))

CurrentView == View(grid.width, grid.height, canvas.width, canvas.height)

\* C2: update(grid) builds a new sprite sheet if and only if the grid or
\* canvas dimensions differ from the snapshot of the previous build (or
\* there is none yet), and afterwards the snapshot holds the current
\* dimensions.
C2_RebuildIffDimensionsChanged ==
    [][op' = "update" =>
          /\ frame'.rebuilt <=> (lastView # CurrentView)
          /\ lastView' = CurrentView]_vars

\* C3: whatever a handler emits while the pointer is absent is a tileup
\* carrying false.
C3_AbsentPointerReportsNoTile ==
    (IsNaN(mouseX) /\ IsNaN(mouseY)) =>
        \A k \in 1..Len(emitted) : emitted[k] = Signal("tileup", NoTile)

\* C4: a press on a tile followed by a release with the pointer off the
\* canvas emits exactly one tileup, carrying false.
C4_ReleaseOffCanvasCarriesFalse ==
    [][( /\ pressed.tile
         /\ pressed.x.v < lastView.gridWidth
         /\ pressed.y.v < lastView.gridHeight
         /\ dragging
         /\ op' = "mouseup"
         /\ ~dragging'
         /\ ~InsideCanvas(mouseX'.v, mouseY'.v) )
       => emitted' = <<Signal("tileup", NoTile)>>]_vars

\* the tiles for which a frame must request a burst: the lit tiles of the
\* playhead's column, when the playhead was not there at the last frame
BurstTiles ==
    {t \in (0..(grid.width - 1)) \X (0..(grid.height - 1)) :
        /\ grid.playheadX # lastPlayheadX
        /\ t[1] = grid.playheadX
        /\ (t[1] * grid.height + t[2]) \in grid.lit}

\* C5: a frame whose playhead column differs from the one recorded by the
\* previous frame requests exactly one burst for each lit tile of that
\* column, centred on the tile's midpoint; a frame whose playhead has not
\* moved requests none; every frame records its playhead column.
C5_OneBurstPerLitTileOnArrival ==
    [][op' = "update" =>
          /\ Len(frame'.bursts) = Cardinality(BurstTiles)
          /\ \A t \in BurstTiles :
                \E k \in 1..Len(frame'.bursts) :
                    /\ 2 * grid.width * frame'.bursts[k].x
                           = canvas.width * (2 * t[1] + 1)
                    /\ 2 * grid.height * frame'.bursts[k].y
                           = canvas.height * (2 * t[2] + 1)
          /\ lastPlayheadX' = grid.playheadX]_vars

\* a frame has requested bursts for two lit tiles of the playhead's column
C5_Witness ==
    /\ op = "update"
    /\ Len(frame.bursts) = 2
    /\ frame.bursts[1] # frame.bursts[2]
    /\ lastPlayheadX = grid.playheadX

\* C8: the pool keeps the number of slots it was constructed with.
C8_PoolSizeNeverChanges == [][Len(particles') = Len(particles)]_vars

Dead(ps) == {i \in 1..Len(ps) : ps[i].life <= 0}

\* a burst larger than the pool has been requested of a pool that is now
\* full
C8_Witness ==
    /\ op = "createParticleBurst"
    /\ probe.in[3] > Len(particles)
    /\ Dead(particles) = {}
    /\ Len(particles) = Len(probe.out)

Min(a, b) == IF a <= b THEN a ELSE b

\* C9: createParticleBurst(x, y, velocity, amount) on a pool with d dead
\* slots makes exactly min(amount, d) of them live, with the full lifetime
\* and at (x, y), and leaves every other slot, live or dead, as it was.
C9_BurstRespawnsDeadSlotsOnly ==
    op = "createParticleBurst" =>
        LET before == probe.out
            amount == probe.in[3]
            respawned == Dead(before) \ Dead(particles)
        IN  /\ Len(particles) = Len(before)
            /\ Cardinality(respawned) = Min(amount, Cardinality(Dead(before)))
            /\ \A i \in respawned :
                  /\ particles[i].life = PARTICLE_LIFETIME
                  /\ particles[i].x = probe.in[1]
                  /\ particles[i].y = probe.in[2]
            /\ \A i \in (1..Len(before)) \ respawned : particles[i] = before[i]

\* a burst asked for more particles than there were dead slots, beside a
\* live particle
C9_Witness ==
    /\ op = "createParticleBurst"
    /\ Dead(probe.out) # {}
    /\ Dead(probe.out) # 1..Len(probe.out)
    /\ probe.in[3] > Cardinality(Dead(probe.out))
    /\ Dead(particles) = {}

RECURSIVE SumSeq(_)
SumSeq(q) == IF q = <<>> THEN 0 ELSE Head(q) + SumSeq(Tail(q))

RECURSIVE SumLife(_, _)
SumLife(ps, S) ==
    IF S = {} THEN 0
    ELSE LET i == CHOOSE j \in S : TRUE
         IN  ps[i].life + SumLife(ps, S \ {i})

\* C10: over a frame a live particle's life strictly decreases, unless it
\* died in that frame and a burst of the same frame respawned its slot;
\* and the frame's heat map holds no more than the lives of the particles
\* that are still alive after the frame's advance.
C10_LifeDecreasesAndDeadAddNoHeat ==
    [][op' = "update" =>
          LET stillAlive == {i \in 1..Len(particles) :
                                /\ particles[i].life > 0
                                /\ particles'[i].life > 0
                                /\ particles'[i].life < particles[i].life}
          IN  /\ \A i \in 1..Len(particles) :
                    particles[i].life > 0 =>
                        \/ particles'[i].life < particles[i].life
                        \/ /\ particles[i].life <= LIFE_DECAY
                           /\ particles'[i].life = PARTICLE_LIFETIME
                           /\ frame'.bursts # <<>>
              /\ SumSeq(frame'.heatmap) <= SumLife(particles', stillAlive)
              /\ stillAlive = {} =>
                    /\ \A t \in 1..Len(frame'.heatmap) : frame'.heatmap[t] = 0
                    /\ frame'.stray = {}]_vars

\* a particle has lived and died over a tile, and the frame in which it
\* died shows no heat
C10_Witness ==
    /\ op = "update"
    /\ \E i \in 1..Len(particles) :
          /\ particles[i].life = 0
          /\ InsideCanvas(particles[i].x, particles[i].y)
          /\ particles[i].x > 0
    /\ \A i \in 1..Len(particles) : particles[i].life = 0
    /\ Len(frame.heatmap) > 0
    /\ \A t \in 1..Len(frame.heatmap) : frame.heatmap[t] = 0

(***************************************************************************)
(* The renderer's life.                                                    *)
(***************************************************************************)
Disposed == disposals > 0

\* C11: dispose() leaves no listener of the renderer on the canvas or the
\* document and no subscriber of its tile events, and throws nothing; once
\* disposed, no step moves the pointer state or emits a signal; and a
\* further dispose() throws nothing and leaves the renderer as it was.
C11_DisposeLeavesNoListener ==
    [][ /\ op' = "dispose" =>
              /\ domListeners' = {}
              /\ subscribers' = {}
              /\ error' = ""
        /\ Disposed =>
              /\ pointerVars' = pointerVars
              /\ emitted' = <<>>
        /\ (Disposed /\ op' = "dispose") =>
              /\ domListeners' = domListeners
              /\ << canvas, grid, particles, rendererVars, pointerVars, ctx,
                    error, internalListeners >>'
                 = << canvas, grid, particles, rendererVars, pointerVars, ctx,
                      error, internalListeners >> ]_vars

\* a renderer that had a drag in progress and both subscriptions has been
\* disposed twice
C11_Witness ==
    /\ op = "dispose"
    /\ disposals = 2
    /\ dragging
    /\ ~lastView.isNull
    /\ domListeners = {}
    /\ subscribers = {}

(***************************************************************************)
(* The signals.                                                            *)
(***************************************************************************)
\* C12: every signal the renderer emits is a tiledown, a tilemove or a
\* tileup; it never emits tileclick.
C12_NeverEmitsTileclick ==
    \A k \in 1..Len(emitted) :
        emitted[k].event \in {"tiledown", "tilemove", "tileup"}

\* a press on tile (0, 0) has been released over the same tile: the
\* gesture of a click
C12_Witness ==
    /\ op = "mouseup"
    /\ emitted = <<Signal("tileup", Tile(Num(0), Num(0)))>>
    /\ ~dragging

\* C13: a constructor that cannot acquire the 2-D context throws, and it
\* has then registered no listener on the canvas or the document; nothing
\* of the renderer runs afterwards.
C13_NoContextFailsBeforeListening ==
    (op # "none" /\ ctx = "none") =>
        /\ error = "Unable to get canvas context"
        /\ internalListeners = <<>>
        /\ domListeners = {}
        /\ op = "constructor"

\* the constructor has thrown
C13_Witness ==
    /\ op = "constructor"
    /\ ctx = "none"
    /\ error # ""

(***************************************************************************)
(* The heat map.                                                           *)
(***************************************************************************)
\* the pixel (x, y) lies inside the cell of the tile with index i
InCell(x, y, i) ==
    LET tx == i \div grid.height
        ty == i % grid.height
    IN  /\ tx * canvas.width <= x * grid.width
        /\ x * grid.width < (tx + 1) * canvas.width
        /\ ty * canvas.height <= y * grid.height
        /\ y * grid.height < (ty + 1) * canvas.height

\* C14: the heat map of a frame holds, for every tile index, the sum of
\* life over exactly the live particles inside that tile's cell, and no
\* entry is written outside 0..width*height-1.  (Stated on frames without
\* a burst, where the pool after the frame is the pool the heat map saw.)
C14_HeatMapSumsLiveParticlesPerCell ==
    (op = "update" /\ frame.bursts = <<>>) =>
        /\ \A i \in 0..(DataLength(grid) - 1) :
              frame.heatmap[i + 1]
                = SumLife(particles,
                          {k \in 1..Len(particles) :
                              /\ particles[k].life > 0
                              /\ InCell(particles[k].x, particles[k].y, i)})
        /\ frame.stray = {}

(***************************************************************************)
(* The drag state.                                                         *)
(***************************************************************************)
\* what the mouse does to the drag state: a mousedown with the primary
\* button starts a drag; a mouseup with the primary button still held
\* leaves it, one with the button released ends it; a mousedown without
\* the primary button starts no drag and emits nothing; a mousemove
\* outside a drag emits nothing; moves, leaves and frames keep the state
MouseDragSteps ==
    /\ op' = "mousedown" =>
          \A e \in ClientPoints :
              /\ MouseDownWith(e, TRUE) => dragging'
              /\ MouseDownWith(e, FALSE)
                    => (dragging' = dragging /\ emitted' = <<>>)
    /\ op' = "mouseup" =>
          \A e \in ClientPoints :
              /\ MouseUpWith(e, TRUE)
                    => (dragging' = dragging /\ emitted' = <<>>)
              /\ MouseUpWith(e, FALSE) => ~dragging'
    /\ (op' = "mousemove" /\ ~dragging) => emitted' = <<>>
    /\ op' \in {"mousemove", "mouseleave", "update", "resize", "grid"}
          => dragging' = dragging

\* C15 as claimed: the drag state follows the mouse and the touch gesture:
\* a single-touch touchstart makes it active, it stays active while the
\* touch moves, and a touchend makes it inactive.
C15_DragFollowsMouseAndTouch ==
    [][ /\ MouseDragSteps
        /\ op' = "touchstart" =>
              \A touches \in TouchLists :
                  (Len(touches) = 1 /\ TouchStartWith(touches)) => dragging'
        /\ (op' = "touchmove" /\ dragging) => dragging'
        /\ op' = "touchend" => ~dragging' ]_vars

\* C15, amended: the drag state follows the mouse gesture only; no touch
\* event changes it, and a touch emits its signals whatever the state is.
C15_DragFollowsMouseOnly ==
    [][ /\ MouseDragSteps
        /\ op' \in {"touchstart", "touchmove", "touchend"}
              => dragging' = dragging ]_vars

\* a drag is going on after a mouseup that came with the primary button
\* still held
C15_Witness ==
    /\ op = "mouseup"
    /\ dragging
    /\ pressed.tile
    /\ emitted = <<>>

(***************************************************************************)
(* The view.                                                               *)
(***************************************************************************)
\* C16: after update(g) the view holds g's width and height, whatever the
\* grid of the update before was; nothing but update changes the view; and
\* the tile a mouse event reports is the pointer's position resolved
\* against the view's grid, not against a grid update has not seen yet.
C16_ViewHoldsGridOfLastUpdate ==
    [][ /\ op' = "update" =>
              /\ ~lastView'.isNull
              /\ lastView'.gridWidth = grid.width
              /\ lastView'.gridHeight = grid.height
        /\ op' # "update" => lastView' = lastView
        /\ op' \in {"mousemove", "mousedown", "mouseup"} =>
              \A k \in 1..Len(emitted') :
                  emitted'[k].payload.tile =>
                      emitted'[k].payload
                        = pixelCoordsToTileCoords(mouseX', mouseY',
                                                  lastView.gridWidth,
                                                  lastView.gridHeight) ]_vars

\* a tile of the third column was pressed, so the view's grid was three
\* wide then, and the update that ran last was given a grid two wide
C16_Witness ==
    /\ op = "update"
    /\ pressed.tile
    /\ pressed.x.v = 2
    /\ grid.width = 2
    /\ lastView.gridWidth = 2
    /\ frame.rebuilt

(***************************************************************************)
(* Hovering.                                                               *)
(***************************************************************************)
PointerAbsent == IsNaN(mouseX) /\ IsNaN(mouseY)

\* C17: a mouseleave or a touchend leaves the pointer position absent,
\* nothing but a pointer event sets a position again, and a frame drawn
\* while the position is absent draws no tile as hovered: every unlit tile
\* gets the opacity its heat gives it.
C17_AbsentPointerHoversNoTile ==
    [][ /\ op' \in {"mouseleave", "touchend"} => PointerAbsent'
        /\ op' \in {"update", "resize", "grid"} =>
              (mouseX' = mouseX /\ mouseY' = mouseY)
        /\ (op' = "update" /\ PointerAbsent) =>
              \A t \in 1..Len(frame'.draws) :
                  /\ ~frame'.draws[t].hover
                  /\ (t - 1) \notin grid.lit =>
                        frame'.draws[t].alpha = HeatAlpha(frame'.heatmap[t]) ]_vars

\* a frame drawn after the pointer pressed a tile and then left the canvas
\* with the button held
C17_Witness ==
    /\ op = "update"
    /\ PointerAbsent
    /\ dragging
    /\ pressed.tile
    /\ Len(frame.draws) > 0

(***************************************************************************)
(* The tiles of a frame.                                                   *)
(***************************************************************************)
\* the tile with index i is the one the pointer is over
PointerOver(i) ==
    /\ ~IsNaN(mouseX)
    /\ ~IsNaN(mouseY)
    /\ InCell(mouseX.v, mouseY.v, i)

\* C18: a frame draws every tile index once, with the sprite and opacity
\* of its state: lit in the playhead's column, sprite 2 at 1; lit
\* elsewhere, sprite 1 at 0.85; unlit under the pointer, sprite 0 at 0.3;
\* unlit otherwise, sprite 0 at the opacity of its heat, never below
\* 51/255.
C18_TileDrawnByItsState ==
    op = "update" =>
        /\ Len(frame.draws) = DataLength(grid)
        /\ \A i \in 0..(DataLength(grid) - 1) :
              LET d == frame.draws[i + 1]
                  lit == i \in grid.lit
                  atPlayhead == (i \div grid.height) = frame.playheadX
              IN  /\ (lit /\ atPlayhead) =>
                        (d.sprite = 2 /\ d.alpha = Alpha(1, 1))
                  /\ (lit /\ ~atPlayhead) =>
                        (d.sprite = 1 /\ d.alpha = Alpha(85, 100))
                  /\ (~lit /\ PointerOver(i)) =>
                        (d.sprite = 0 /\ d.alpha = Alpha(3, 10))
                  /\ (~lit /\ ~PointerOver(i)) =>
                        /\ d.sprite = 0
                        /\ d.alpha = HeatAlpha(frame.heatmap[i + 1])
                        /\ d.alpha >= Alpha(51, 255)

\* C19 as claimed: the first frame after construction, drawn when no view
\* was established yet, draws no tile as hovered.
C19_FirstFrameHoversNoTile ==
    (op = "update" /\ frame.first) =>
        \A t \in 1..Len(frame.draws) : ~frame.draws[t].hover

\* C19, amended: the first frame establishes the view before it maps the
\* pointer, and hovers as every later frame does: an unlit tile is drawn
\* hovered exactly if the pointer's position maps to it, none if the
\* pointer is absent or maps to no tile.  What the missing view suppresses
\* is the signals: a pointer event before the first frame emits nothing.
C19_FirstFrameHoversMappedTile ==
    /\ (op = "update" /\ frame.first) =>
          /\ ~lastView.isNull
          /\ \A i \in 0..(DataLength(grid) - 1) :
                frame.draws[i + 1].hover
                  <=> /\ i \notin grid.lit
                      /\ frame.mousedOverTile
                            = Tile(Num(i \div grid.height), Num(i % grid.height))
          /\ (PointerAbsent \/ ~frame.mousedOverTile.tile) =>
                \A t \in 1..Len(frame.draws) : ~frame.draws[t].hover
    /\ lastView.isNull => emitted = <<>>

\* the first frame was drawn with the pointer already over tile (0, 0),
\* and drew that tile hovered
C19_Witness ==
    /\ op = "update"
    /\ frame.first
    /\ frame.mousedOverTile = Tile(Num(0), Num(0))
    /\ frame.draws[1].hover
    /\ frame.draws[1].alpha = Alpha(3, 10)

(***************************************************************************)
(* The order of a frame.                                                   *)
(***************************************************************************)
\* the centres of the bursts a frame requested
BurstCentresOf(bursts) == {<<bursts[k].x, bursts[k].y>> : k \in 1..Len(bursts)}

\* C20: update(grid) advances the pool once, computes the heat map from
\* the pool so advanced, and only then requests the bursts: after the
\* frame every slot is either as one advance left it, or was dead then and
\* holds a particle just spawned at a burst's centre, with its full life
\* and the velocity it drew, not advanced and not in this frame's heat map.
C20_AdvanceThenHeatThenBursts ==
    [][op' = "update" =>
          LET once == ParticleUpdate(particles)
          IN  /\ Len(particles') = Len(particles)
              /\ \A i \in 1..Len(particles) :
                    \/ particles'[i] = once[i]
                    \/ /\ IsDead(once[i])
                       /\ particles'[i].life = PARTICLE_LIFETIME
                       /\ <<particles'[i].x, particles'[i].y>>
                             \in BurstCentresOf(frame'.bursts)
                       /\ <<particles'[i].vx, particles'[i].vy>>
                             \in VelocitySamples(8 * getDevicePixelRatio)
              /\ frame'.heatmap = getParticleHeatMap(once, grid)
              /\ SumSeq(frame'.heatmap)
                    <= SumLife(once, {i \in 1..Len(once) : once[i].life > 0})
        ]_vars

\* a frame has spawned particles into every slot, and its heat map counts
\* none of them
C20_Witness ==
    /\ op = "update"
    /\ frame.bursts # <<>>
    /\ \A i \in 1..Len(particles) :
          /\ particles[i].life = PARTICLE_LIFETIME
          /\ <<particles[i].x, particles[i].y>> \in BurstCentresOf(frame.bursts)
    /\ SumSeq(frame.heatmap) = 0

(***************************************************************************)
(* Ownership.                                                              *)
(***************************************************************************)
\* the labels of the pointer and touch listeners
InputOps ==
    {"mousemove", "mouseleave", "mousedown", "mouseup",
     "touchstart", "touchend", "touchmove"}

\* C21: update(grid) changes neither the pointer state (mouseX, mouseY,
\* dragging) nor the grid's tile values, and no pointer or touch listener
\* changes the particle pool, the view snapshot, the sprite sheet or the
\* recorded last-playhead column.
C21_OwnershipIsDisjoint ==
    [][ /\ op' = "update" =>
              /\ mouseX' = mouseX
              /\ mouseY' = mouseY
              /\ dragging' = dragging
              /\ grid'.lit = grid.lit
        /\ op' \in InputOps =>
              /\ particles' = particles
              /\ lastView' = lastView
              /\ spriteSheet' = spriteSheet
              /\ lastPlayheadX' = lastPlayheadX ]_vars

\* a frame has run in the middle of a drag, with the pointer over a tile:
\* it read the pointer, and the drag and the press are still there
C21_Witness ==
    /\ op = "update"
    /\ dragging
    /\ pressed.tile
    /\ frame.mousedOverTile.tile
    /\ ~lastView.isNull

(***************************************************************************)
(* Touch events.                                                           *)
(***************************************************************************)
\* the tile of the view whose cell holds canvas position (x, y), none for a
\* position off the canvas
TileUnder(x, y) ==
    IF InsideCanvas(x.v, y.v)
    THEN Tile(FloorDiv(x, canvas.width, lastView.gridWidth),
              FloorDiv(y, canvas.height, lastView.gridHeight))
    ELSE NoTile

\* one signal of the given kind for every touch point that lies over a
\* tile, in the order of the touch points
RECURSIVE SignalsOverTiles(_, _)
SignalsOverTiles(event, touches) ==
    IF touches = <<>> THEN <<>>
    ELSE LET pos == updateCanvasMousePosition(Head(touches))
             tile == TileUnder(pos.x, pos.y)
         IN  (IF tile.tile THEN <<Signal(event, tile)>> ELSE <<>>)
             \o SignalsOverTiles(event, Tail(touches))

\* C22: once a view snapshot exists, a touchstart or touchmove with more
\* than one touch point emits one tilemove for every touch point that lies
\* over a tile, resolved from that touch's own position, and no tiledown;
\* a touchstart with exactly one touch point emits a tiledown for the tile
\* under it and no tilemove.
C22_TouchesEmitPerTouchPoint ==
    [][ (~lastView.isNull /\ op' \in {"touchstart", "touchmove"}) =>
            \A touches \in TouchLists :
                /\ ( /\ Len(touches) > 1
                     /\ TouchStartWith(touches) \/ TouchMoveWith(touches) )
                      => emitted' = SignalsOverTiles("tilemove", touches)
                /\ (Len(touches) = 1 /\ TouchStartWith(touches))
                      => emitted' = SignalsOverTiles("tiledown", touches)
      ]_vars

(***************************************************************************)
(* Before the first frame.                                                 *)
(***************************************************************************)
\* C24: while no update() has established a view snapshot, no input event
\* emits a signal, not even a tileup carrying false, and a mousedown with
\* the primary button still starts a drag.
C24_NoSignalBeforeFirstView ==
    [][ (lastView.isNull /\ op' \in InputOps) =>
            /\ emitted' = <<>>
            /\ pressed' = NoTile
            /\ op' = "mousedown" =>
                  \A e \in ClientPoints : MouseDownWith(e, TRUE) => dragging'
      ]_vars

\* the primary button has been pressed over the canvas before the first
\* frame: the drag has begun, and no tiledown was emitted
C24_Witness ==
    /\ lastView.isNull
    /\ op = "mousedown"
    /\ dragging
    /\ ~IsNaN(mouseX)
    /\ InsideCanvas(mouseX.v, mouseY.v)
    /\ emitted = <<>>
    /\ pressed = NoTile

(***************************************************************************)
(* The order of the signals.                                               *)
(***************************************************************************)
\* the signals of q are all of the given kind
AllOfKind(q, event) == \A k \in 1..Len(q) : q[k].event = event

\* C25 as claimed: every tilemove and every tileup is emitted while a
\* tiledown is open, that is after a tiledown that no tileup has followed
\* yet, and the event that ends a gesture with an open tiledown emits
\* exactly one tileup.
C25_SignalsOrderedPerGesture ==
    [][ /\ \A k \in 1..Len(emitted') :
              emitted'[k].event \in {"tilemove", "tileup"}
                  => AfterSignals(pressed, SubSeq(emitted', 1, k - 1)).tile
        /\ ( /\ pressed.tile
             /\ \/ op' = "touchend"
                \/ op' = "mouseup" /\ dragging /\ ~dragging' )
              => (Len(emitted') = 1 /\ emitted'[1].event = "tileup")
      ]_vars

\* C25, amended: the signals follow the mouse's drag state and nothing
\* else.  A mousemove emits at most one signal, a tilemove, and only during
\* a drag; a mousedown emits at most a tiledown, and only as it starts a
\* drag; a mouseup emits exactly one tileup if it ends a drag and a view
\* snapshot exists, and nothing otherwise; a mouseleave emits nothing; with
\* a view snapshot every touchend emits exactly one tileup, whatever came
\* before, and touchstart and touchmove emit tiledown and tilemove without
\* regard to any press.
C25_SignalsFollowDragState ==
    [][ /\ op' = "mousemove" =>
              /\ Len(emitted') <= 1
              /\ AllOfKind(emitted', "tilemove")
              /\ emitted' # <<>> => (dragging /\ dragging')
        /\ op' = "mousedown" =>
              /\ Len(emitted') <= 1
              /\ AllOfKind(emitted', "tiledown")
              /\ emitted' # <<>> => dragging'
        /\ op' = "mouseup" =>
              IF dragging /\ ~dragging' /\ ~lastView.isNull
              THEN Len(emitted') = 1 /\ emitted'[1].event = "tileup"
              ELSE emitted' = <<>>
        /\ op' = "mouseleave" => emitted' = <<>>
        /\ (op' = "touchend" /\ ~lastView.isNull) =>
              (Len(emitted') = 1 /\ emitted'[1].event = "tileup")
        /\ op' = "touchstart" => AllOfKind(emitted', "tiledown")
                                 \/ AllOfKind(emitted', "tilemove")
        /\ op' = "touchmove" => AllOfKind(emitted', "tilemove")
      ]_vars

\* a drag that began with no tiledown (the button went down before the
\* first frame, or over no tile) has emitted a tilemove
C25_Witness ==
    /\ op = "mousemove"
    /\ dragging
    /\ emitted # <<>>
    /\ emitted[1].event = "tilemove"
    /\ pressed = NoTile

(***************************************************************************)
(* The grid's instruments and notes.                                       *)
(***************************************************************************)
\* C28: currentInstrument always indexes an existing instrument:
\* setCurrentInstrument(id) with an id that names no instrument, too large
\* or negative, leaves currentInstrument as it was, so that getPlayheadX,
\* getTileValue and setTileValue never address a missing instrument.
C28_CurrentInstrumentExists ==
    [][ /\ op' = "setCurrentInstrument" =>
              \A id \in InstrumentIds \ (0..(grid.instruments - 1)) :
                  SetCurrentInstrumentWith(id)
                      => grid'.currentInstrument = grid.currentInstrument
        /\ ~NoSuchInstrument(grid') ]_vars

\* the notes instrument c has scheduled for tile (x, y) and not unscheduled
Outstanding(g, c, x, y) == CopiesIn(<<x, y>>, g.scheduled[c])

\* C27: after any sequence of setTileValue, toggleTileValue,
\* setCurrentInstrument and clearAllTiles on valid coordinates, a tile
\* holds a note for an instrument if and only if exactly one note scheduled
\* on that instrument for that tile has not been unscheduled (and none
\* otherwise); setTileValue(x, y, true) on a lit tile schedules nothing,
\* setTileValue(x, y, false) on an unlit tile unschedules nothing, only the
\* addressed tile changes, and after setTileValue(x, y, b) getTileValue(x,
\* y) is b.
C27_TileHoldsNoteIffOneScheduled ==
    [][ /\ \A c \in 0..(InstrumentCount - 1), t \in TileCoords(grid') :
              /\ Outstanding(grid', c, t[1], t[2]) \in {0, 1}
              /\ HasNote(grid', coordToIndex(t[1], t[2], grid'.height), c)
                    <=> Outstanding(grid', c, t[1], t[2]) = 1
        /\ op' = "setTileValue" =>
              \A t \in TileCoords(grid), b \in BOOLEAN :
                  SetTileValueWith(t[1], t[2], b) =>
                      /\ getTileValue(grid', t[1], t[2]) = b
                      /\ getTileValue(grid, t[1], t[2]) = b
                            => grid'.scheduled = grid.scheduled
                      /\ \A c \in 0..(InstrumentCount - 1),
                            u \in TileCoords(grid) \ {t} :
                              LET j == coordToIndex(u[1], u[2], grid.height)
                              IN  grid'.notes[c][j] = grid.notes[c][j]
      ]_vars

(***************************************************************************)
(* The savestate.                                                          *)
(***************************************************************************)
\* C29: the savestate round-trips: loading the string toBase64() returned
\* in a state S restores exactly the lit tiles of S, whatever was set,
\* cleared or loaded in between, for every grid whose number of tiles is a
\* multiple of 8; the empty grid saves as the empty string, and loading
\* the empty string leaves every tile unlit.
C29_SavestateRoundTrips ==
    [][ /\ op' = "toBase64" => (grid.lit = {} <=> probe'.out = <<>>)
        /\ op' = "fromBase64" =>
              /\ (probe.fn = "toBase64" /\ FromBase64With(probe.out))
                    => grid'.lit = probe.in[1]
              /\ FromBase64With(<<>>) => grid'.lit = {}
      ]_vars

(***************************************************************************)
(* ToneMatrix: disposal and gestures.                                      *)
(***************************************************************************)
\* C23: ToneMatrix.dispose() cleans up every resource of the instance:
\* once it has run, no listener of the ToneMatrix or of its renderer is
\* attached to the wrapper, the canvas or the document any more, and the
\* animation loop calls update() no more.
C23_DisposeDetachesEverything ==
    [][ /\ destroyed' => domListeners' = {}
        /\ destroyed => op' # "update"
      ]_vars

\* the tiles of the signals of one event among those just emitted
Signalled(signals, event) ==
    {signals[k].payload :
        k \in {j \in DOMAIN signals : signals[j].event = event}}

\* C26: while the ToneMatrix lives, a tiledown sets its tile to the
\* negation of the value the tile had and keeps that value as the
\* gesture's; until the tileup every tilemove sets its tile to that very
\* value, nothing changes the value kept, and no tile is changed by an
\* input event to another value.
C26_GestureSetsOneValue ==
    [][ ~destroyed' =>
          /\ \A t \in Signalled(emitted', "tiledown") :
                /\ arming' = Arming(~getTileValue(grid, t.x.v, t.y.v))
                /\ getTileValue(grid', t.x.v, t.y.v) = arming'.value
          /\ (pressed.tile /\ Signalled(emitted', "tiledown") = {}) =>
                /\ ~arming.isNull
                /\ arming' = arming
                /\ \A t \in Signalled(emitted', "tilemove") :
                      ~NoSuchTile(grid, t.x.v, t.y.v) =>
                          getTileValue(grid', t.x.v, t.y.v) = arming.value
          /\ (op' \in InputOps /\ (pressed.tile \/ pressed'.tile)) =>
                \A i \in 0..(DataLength(grid) - 1) :
                    ((i \in grid'.lit) # (i \in grid.lit)) =>
                        ((i \in grid'.lit) <=> arming'.value)
      ]_vars

\* a drag has reached a second tile and turned it off like the pressed one
C26_Witness ==
    /\ ~destroyed
    /\ op \in {"mousemove", "touchmove"}
    /\ pressed.tile
    /\ \E t \in Signalled(emitted, "tilemove") : t # pressed
    /\ ~arming.isNull
    /\ ~arming.value
    /\ grid.lit = {}

====
